---- MODULE Spec2Model ----
(***************************************************************************)
(* The draw bots of eatthepie/bots.  Three programs are modelled:          *)
(*   - src/update-game-bot/bot.js lines 1-538: the Witnet bot, with its    *)
(*     autonomous main loop (mode "autonomous") and its one-shot           *)
(*     processSpecificGame (mode "single");                                *)
(*   - src/unnamed/part_000: the earlier Witnet bot, one game number and a *)
(*     fixed polling interval (mode "flow");                               *)
(*   - src/update-game-bot/bot.js lines 540-834: the RANDAO/VDF bot run by *)
(*     setInterval, on the current game (mode "vdf") or on one game        *)
(*     (mode "vdfGame").                                                   *)
(* The lottery contract, the oracle, the other callers of the contract and *)
(* the notification endpoint are the environment.  Every await of the code *)
(* is one step of the model; the environment moves between the steps.      *)
(***************************************************************************)
EXTENDS Integers, Sequences, FiniteSets, Bags, TLC

----------------------------------------------------------------------------
(* Bounds of the model *)

\* game numbers 1..MaxGame; the last game never reaches its deadline, so
\* games 1..MaxGame-1 can be drawn: two of them, for a bot that is done
\* with one game and goes on to the next
MaxGame == 3

\* invocations of the notification endpoint are counted up to MaxNotify
MaxNotify == 2

\* setInterval callbacks of the VDF bot that may be running at once
MaxInFlight == 2

Games == 1..MaxGame


----------------------------------------------------------------------------
(* Program constants *)

\* let activeDrawingGame = null (game numbers start at 1)
Null == 0

\* enum GameStatus { InPlay, Drawing, Completed }
InPlay == 0

Drawing == 1

Completed == 2

\* INTERVALS, in minutes
FAR_FROM_DRAW == 60

APPROACHING_DRAW == 30

CLOSE_TO_DRAW == 10

VERY_CLOSE == 2

DRAWING_IN_PROGRESS == 1

WAITING_FOR_RANDOM == 5

\* config.WITNET_FUNDING_ATTEMPTS = [0.000001, 0.0000005, 0.000005] ETH,
\* written in gwei (1 ETH = 10^9 gwei)
WITNET_FUNDING_ATTEMPTS == <<1000, 500, 5000>>

\* gameInfo.drawInitiatedBlock + BigInt(5)
BUFFER_BLOCKS == 5

----------------------------------------------------------------------------
(* Text.  A JavaScript string is the sequence of its characters. *)

\* "Time interval not passed": revert reason of initiateDraw before the deadline (part_000:182)
TxtTimeInterval ==
  << "T","i","m","e"," ","i","n","t","e","r","v","a","l"," ","n","o","t",
     " ","p","a","s","s","e","d">>

\* "Value not enough": a funding shortfall reported by the randomness oracle
TxtValueNotEnough ==
  << "V","a","l","u","e"," ","n","o","t"," ","e","n","o","u","g","h">>

\* "Insufficient funds": a funding shortfall reported by the node
TxtInsufficient ==
  << "I","n","s","u","f","f","i","c","i","e","n","t"," ","f","u","n","d","s">>

\* "transaction underpriced": a funding shortfall reported by the node
TxtUnderpriced ==
  << "t","r","a","n","s","a","c","t","i","o","n"," ","u","n","d","e","r",
     "p","r","i","c","e","d">>

\* "Payouts already calculated for this game": revert reason of calculatePayouts on a Completed game
TxtAlreadyCalc ==
  << "P","a","y","o","u","t","s"," ","a","l","r","e","a","d","y"," ","c",
     "a","l","c","u","l","a","t","e","d"," ","f","o","r"," ","t","h","i",
     "s"," ","g","a","m","e">>

\* "Random number not yet available": revert reason of setRandomAndWinningNumbers before the oracle answered
TxtNotYetAvail ==
  << "R","a","n","d","o","m"," ","n","u","m","b","e","r"," ","n","o","t",
     " ","y","e","t"," ","a","v","a","i","l","a","b","l","e">>

\* "execution reverted": a revert the bot has no pattern for
TxtReverted ==
  << "e","x","e","c","u","t","i","o","n"," ","r","e","v","e","r","t","e","d">>

\* "HTTP request failed": a transport failure of the RPC client
TxtHttp ==
  << "H","T","T","P"," ","r","e","q","u","e","s","t"," ","f","a","i","l",
     "e","d">>

\* "All attempts to fund Witnet randomness have failed.": message of the error thrown at bot.js:131
TxtExhausted ==
  << "A","l","l"," ","a","t","t","e","m","p","t","s"," ","t","o"," ","f",
     "u","n","d"," ","W","i","t","n","e","t"," ","r","a","n","d","o","m",
     "n","e","s","s"," ","h","a","v","e"," ","f","a","i","l","e","d",".">>

\* "Number 5e-7 is not a valid decimal number.": what parseEther throws on a string in exponent notation
TxtInvalidDecimal ==
  << "N","u","m","b","e","r"," ","5","e","-","7"," ","i","s"," ","n","o",
     "t"," ","a"," ","v","a","l","i","d"," ","d","e","c","i","m","a","l",
     " ","n","u","m","b","e","r",".">>

\* "value not enough": bot.js:123
PatValueNotEnough ==
  << "v","a","l","u","e"," ","n","o","t"," ","e","n","o","u","g","h">>

\* "insufficient": bot.js:124
PatInsufficient ==
  << "i","n","s","u","f","f","i","c","i","e","n","t">>

\* "underpriced": bot.js:125
PatUnderpriced ==
  << "u","n","d","e","r","p","r","i","c","e","d">>

\* "Payouts already calculated": bot.js:169
PatAlreadyShort ==
  << "P","a","y","o","u","t","s"," ","a","l","r","e","a","d","y"," ","c",
     "a","l","c","u","l","a","t","e","d">>

\* "Payouts already calculated for this game": bot.js:678, part_000:150
PatAlreadyLong ==
  << "P","a","y","o","u","t","s"," ","a","l","r","e","a","d","y"," ","c",
     "a","l","c","u","l","a","t","e","d"," ","f","o","r"," ","t","h","i",
     "s"," ","g","a","m","e">>

\* "Random number not yet available": bot.js:313
PatNotYetAvail ==
  << "R","a","n","d","o","m"," ","n","u","m","b","e","r"," ","n","o","t",
     " ","y","e","t"," ","a","v","a","i","l","a","b","l","e">>

\* "Failed to set random/winning numbers: ": bot.js:149
PreSetRandom ==
  << "F","a","i","l","e","d"," ","t","o"," ","s","e","t"," ","r","a","n",
     "d","o","m","/","w","i","n","n","i","n","g"," ","n","u","m","b","e",
     "r","s",":"," ">>

\* "Failed to calculate payouts: ": bot.js:175
PreCalc ==
  << "F","a","i","l","e","d"," ","t","o"," ","c","a","l","c","u","l","a",
     "t","e"," ","p","a","y","o","u","t","s",":"," ">>

\* "Failed to initiate draw: ": bot.js:612
PreInitiate ==
  << "F","a","i","l","e","d"," ","t","o"," ","i","n","i","t","i","a","t",
     "e"," ","d","r","a","w",":"," ">>

\* "Failed to set RANDAO value: ": bot.js:633
PreRandao ==
  << "F","a","i","l","e","d"," ","t","o"," ","s","e","t"," ","R","A","N",
     "D","A","O"," ","v","a","l","u","e",":"," ">>

\* "Failed to submit VDF proof: ": bot.js:657
PreProof ==
  << "F","a","i","l","e","d"," ","t","o"," ","s","u","b","m","i","t"," ",
     "V","D","F"," ","p","r","o","o","f",":"," ">>

UpperChars ==
  << "A","B","C","D","E","F","G","H","I","J","K","L","M","N","O","P","Q",
     "R","S","T","U","V","W","X","Y","Z">>

LowerChars ==
  << "a","b","c","d","e","f","g","h","i","j","k","l","m","n","o","p","q",
     "r","s","t","u","v","w","x","y","z">>
\* String.prototype.toLowerCase on one character
LowerChar(c) ==
  IF \E k \in 1..Len(UpperChars) : UpperChars[k] = c
  THEN LowerChars[CHOOSE k \in 1..Len(UpperChars) : UpperChars[k] = c]
  ELSE c

\* String.prototype.toLowerCase
ToLowerCase(s) ==
  [k \in 1..Len(s) |-> LowerChar(s[k])]

\* String.prototype.includes
Includes(s, pat) ==
  \E k \in 0..(Len(s) - Len(pat)) : SubSeq(s, k + 1, k + Len(pat)) = pat

\* The rejection reasons the environment can give, by name
ReasonIds ==
  {"TimeInterval", "ValueNotEnough", "Insufficient", "Underpriced",
   "AlreadyCalc", "NotYetAvail", "Reverted", "Http"}

\* The text of a reason
Text(id) ==
  CASE id = "TimeInterval" -> TxtTimeInterval
    [] id = "ValueNotEnough" -> TxtValueNotEnough
    [] id = "Insufficient" -> TxtInsufficient
    [] id = "Underpriced" -> TxtUnderpriced
    [] id = "AlreadyCalc" -> TxtAlreadyCalc
    [] id = "NotYetAvail" -> TxtNotYetAvail
    [] id = "Reverted" -> TxtReverted
    [] id = "Http" -> TxtHttp
    [] id = "Exhausted" -> TxtExhausted
    [] id = "InvalidDecimal" -> TxtInvalidDecimal
    [] OTHER -> << >>

\* The prefix a wrapper puts before the message it rethrows
Prefix(wrap) ==
  CASE wrap = "setRandom" -> PreSetRandom
    [] wrap = "calc" -> PreCalc
    [] wrap = "initiate" -> PreInitiate
    [] wrap = "randao" -> PreRandao
    [] wrap = "proof" -> PreProof
    [] OTHER -> << >>

(* An Error object: cause is the name of error.cause.reason ("none" when   *)
(* it is undefined), text the name of the reason its message carries, wrap *)
(* the wrapper that rebuilt it with new Error(prefix + error.message).     *)
NoErr == [cause |-> "none", text |-> "none", wrap |-> "none"]

\* error.message
Message(e) == Prefix(e.wrap) \o Text(e.text)

\* new Error(`<prefix>${error.message}`): the cause is not carried over
Wrap(w, e) == [cause |-> "none", text |-> e.text, wrap |-> w]

\* The error the client throws for a rejection o
RawError(o) ==
  [cause |-> IF o.cause THEN o.reason ELSE "none", text |-> o.reason,
   wrap |-> "none"]

----------------------------------------------------------------------------
(* State *)

VARIABLES
  \* the lottery contract
  cur,                \* currentGameNumber
  phase,              \* phase[g]: status of game g
  seed,               \* seed[g]: randomSeed / randaoValue of game g, 0 = unset
  avail,              \* avail[g]: the oracle has the random number of game g
  age,                \* age[g]: blocks since the draw of g, up to BUFFER_BLOCKS
  proof,              \* proof[g]: a VDF proof of game g was accepted
  tleft,              \* seconds until the draw time of the current game
  \* the process
  mode,               \* which program runs, and how it was started
  forceGame,          \* process.argv[2] as a game number, Null without one
  lambdaConfigured,   \* ROUND_COMPLETE_LAMBDA_URL and LAMBDA_PASSWORD are set
  exitCode,           \* -1 while the process runs, else the code of process.exit
  \* the Witnet bots
  pc,                 \* the await the bot is at
  activeDrawingGame,
  notifiedGames,
  currentInfo,        \* const currentInfo = await getCurrentGameInfo()
  gameNum,
  info,               \* activeGameInfo, then info
  i,                  \* index of the funding attempt
  err,                \* the error the cycle ended with, NoErr without one
  delay,              \* minutes returned by checkAndProcessGame
  \* the VDF bot
  vrun,               \* the calls of checkAndProcessGame under way, a bag
  vlast,              \* the call that returned in the last step, if it made
                      \* contract calls, else NoCall
  \* history, kept for the properties
  startActive,        \* activeDrawingGame when the cycle started
  startNotified,      \* notifiedGames when the cycle started
  obsTime,            \* seconds to the draw time of the game the cycle works
                      \* on, when the cycle read it; -1 before
  sawCompleted,       \* games read as Completed in this cycle
  reads,              \* games whose detailed info was asked for in this cycle
  readFailed,         \* a read of this cycle failed
  writes,             \* the contract calls of this cycle, in order
  notifyCount         \* notifyCount[g]: POSTs made for game g

ledgerVars == <<cur, phase, seed, avail, age, proof, tleft>>

configVars == <<mode, forceGame, lambdaConfigured>>

botVars ==
  <<pc, activeDrawingGame, notifiedGames, currentInfo, gameNum, info, i, err,
    delay>>

vdfVars == <<vrun, vlast>>

histVars ==
  <<startActive, startNotified, obsTime, sawCompleted, reads, readFailed,
    writes>>

vars ==
  <<cur, phase, seed, avail, age, proof, tleft, mode, forceGame,
    lambdaConfigured, exitCode, pc, activeDrawingGame, notifiedGames,
    currentInfo, gameNum, info, i, err, delay, vrun, vlast,
    startActive, startNotified, obsTime, sawCompleted, reads, readFailed,
    writes, notifyCount>>

Running == exitCode = -1

WitnetModes == {"autonomous", "single", "flow"}

VdfModes == {"vdf", "vdfGame"}

----------------------------------------------------------------------------
(* The environment: the contract, the oracle, the chain, other callers *)

\* Draw times the model tells apart: 13 h, 12 h, 2 h, 30 min, reached
TimePoints == {46800, 43200, 7200, 1800, 0}

TopTime == CHOOSE t \in TimePoints : \A u \in TimePoints : u <= t

\* Only the autonomous loop reads timeUntilDraw: for the other bots the draw
\* time is ahead or reached
TimePointsSeen == IF mode = "autonomous" THEN TimePoints ELSE {TopTime, 0}

\* What the oracle may charge for one request, in gwei: not known in advance
OracleFees == {500, 6000}

HighestFee == CHOOSE f \in OracleFees : \A u \in OracleFees : u <= f

FundingReasons == {"ValueNotEnough", "Insufficient", "Underpriced"}

\* The random number of game g can be set
RandomReady(g) ==
  IF mode \in VdfModes THEN age[g] >= BUFFER_BLOCKS ELSE avail[g]

\* The contract accepts the call
Acceptable(act, g, value) ==
  CASE act = "initiateDraw" ->
         /\ tleft <= 0
         /\ mode \in WitnetModes => \E fee \in OracleFees : value >= fee
    [] act = "setRandom" ->
         g \in Games /\ phase[g] = Drawing /\ seed[g] = 0 /\ RandomReady(g)
    [] act = "submitProof" ->
         g \in Games /\ phase[g] = Drawing /\ seed[g] # 0 /\ ~proof[g]
    [] act = "calculatePayouts" ->
         /\ g \in Games /\ phase[g] = Drawing /\ seed[g] # 0
         /\ mode \in VdfModes => proof[g]
    [] OTHER -> FALSE

\* The reasons the contract may give for reverting the call
Reverts(act, g, value) ==
  CASE act = "initiateDraw" ->
         IF tleft > 0 THEN {"TimeInterval"}
         ELSE IF mode \in WitnetModes /\ \E fee \in OracleFees : value < fee
              THEN FundingReasons ELSE {}
    [] act = "setRandom" ->
         IF g \in Games /\ phase[g] = Drawing /\ seed[g] = 0 /\ ~RandomReady(g)
         THEN {"NotYetAvail"}
         ELSE IF Acceptable(act, g, value) THEN {} ELSE {"Reverted"}
    [] act = "submitProof" ->
         IF Acceptable(act, g, value) THEN {} ELSE {"Reverted"}
    [] act = "calculatePayouts" ->
         IF g \in Games /\ phase[g] = Completed THEN {"AlreadyCalc"}
         ELSE IF Acceptable(act, g, value) THEN {} ELSE {"Reverted"}
    [] OTHER -> {}

\* error.cause.reason is read by the Witnet bots only
CauseSeen == IF mode \in WitnetModes THEN BOOLEAN ELSE {FALSE}

(* What writeContract can come back with.  ok: a transaction hash was      *)
(* returned; applied: the transaction took effect (a hash is returned at   *)
(* broadcast, and the transaction may still be dropped); reason and cause: *)
(* the rejection and whether error.cause.reason carries it; sim: what      *)
(* simulateContract did in this attempt: "none" when it was not called,    *)
(* "passed" when writeContract was called with its request.                *)
Responses(act, g, value, simulated) ==
  {[ok |-> TRUE, applied |-> a, reason |-> "none", cause |-> FALSE,
    sim |-> IF simulated THEN "passed" ELSE "none"] :
      a \in IF Acceptable(act, g, value) THEN BOOLEAN ELSE {}}
  \cup
  {[ok |-> FALSE, applied |-> FALSE, reason |-> r, cause |-> c,
    sim |-> IF simulated THEN "passed" ELSE "none"] :
      r \in Reverts(act, g, value), c \in CauseSeen}
  \cup
  {[ok |-> FALSE, applied |-> FALSE, reason |-> "Http", cause |-> FALSE,
    sim |-> IF simulated THEN "passed" ELSE "none"]}

\* simulateContract returns the request: the contract accepts the call now
SimulationPasses(act, g) == Acceptable(act, g, 0)

\* What simulateContract can throw: the revert of the contract or a failure
\* of the transport; writeContract is not called then (sim is "failed")
SimulationFailures(act, g) ==
  {[ok |-> FALSE, applied |-> FALSE, reason |-> r, cause |-> c,
    sim |-> "failed"] :
      r \in Reverts(act, g, 0), c \in CauseSeen}
  \cup
  {[ok |-> FALSE, applied |-> FALSE, reason |-> "Http", cause |-> FALSE,
    sim |-> "failed"]}

\* The effect of a call on the contract
Effect(act, g, applied) ==
  IF ~applied THEN UNCHANGED ledgerVars
  ELSE CASE act = "initiateDraw" ->
              /\ phase' = [phase EXCEPT ![cur] = Drawing]
              /\ cur' = cur + 1
              /\ tleft' = TopTime
              /\ UNCHANGED <<seed, avail, age, proof>>
         [] act = "setRandom" ->
              /\ seed' = [seed EXCEPT ![g] = 1]
              /\ UNCHANGED <<cur, phase, avail, age, proof, tleft>>
         [] act = "submitProof" ->
              /\ proof' = [proof EXCEPT ![g] = TRUE]
              /\ UNCHANGED <<cur, phase, seed, avail, age, tleft>>
         [] act = "calculatePayouts" ->
              /\ phase' = [phase EXCEPT ![g] = Completed]
              /\ UNCHANGED <<cur, seed, avail, age, proof, tleft>>

\* getCurrentGameInfo / currentGameNumber
ReadCurrent == [gameNumber |-> cur, timeUntilDraw |-> tleft]

\* getDetailedGameInfo(g)
ReadDetailed(g) == [status |-> phase[g], randomValue |-> seed[g]]

NoInfo == [status |-> -1, randomValue |-> 0]

\* a call of checkAndProcessGame of the VDF bot that has not started
NoCall ==
  [at |-> "none", gameNumber |-> Null, gameInfo |-> NoInfo, calls |-> << >>]

NoCurrent == [gameNumber |-> Null, timeUntilDraw |-> 0]

\* Time passes.  The last game of the model stays before its draw time.
Tick ==
  /\ Running
  /\ tleft > 0
  /\ LET next == CHOOSE t \in TimePointsSeen :
                   t < tleft /\ \A u \in TimePointsSeen : u < tleft => u <= t
     IN /\ cur < MaxGame \/ next > 0
        /\ tleft' = next
  /\ UNCHANGED <<cur, phase, seed, avail, age, proof>>
  /\ vlast' = NoCall
  /\ UNCHANGED <<configVars, exitCode, botVars, vrun, histVars, notifyCount>>

\* The Witnet oracle answers the request of a game being drawn
OracleReady ==
  /\ Running
  /\ mode \in WitnetModes
  /\ \E g \in Games :
       /\ phase[g] = Drawing /\ ~avail[g]
       /\ avail' = [avail EXCEPT ![g] = TRUE]
  /\ UNCHANGED <<cur, phase, seed, age, proof, tleft>>
  /\ UNCHANGED <<configVars, exitCode, botVars, vdfVars, histVars, notifyCount>>

\* Blocks are mined until the buffer after the draw of game g has passed
MineBlock ==
  /\ Running
  /\ mode \in VdfModes
  /\ \E g \in Games :
       /\ phase[g] = Drawing /\ age[g] < BUFFER_BLOCKS
       /\ age' = [age EXCEPT ![g] = BUFFER_BLOCKS]
  /\ UNCHANGED <<cur, phase, seed, avail, proof, tleft>>
  /\ vlast' = NoCall
  /\ UNCHANGED <<configVars, exitCode, botVars, vrun, histVars, notifyCount>>

\* Another caller of the contract gets one of its calls through
OtherCaller ==
  /\ Running
  /\ \E act \in {"initiateDraw", "setRandom", "submitProof",
                  "calculatePayouts"},
        g \in Games :
       /\ act = "initiateDraw" => g = cur
       /\ act = "submitProof" => mode \in VdfModes
       /\ Acceptable(act, g, HighestFee)
       /\ Effect(act, g, TRUE)
  /\ vlast' = NoCall
  /\ UNCHANGED <<configVars, exitCode, botVars, vrun, histVars, notifyCount>>

----------------------------------------------------------------------------
(* Decisions of the Witnet bot, src/update-game-bot/bot.js lines 1-538 *)

\* const errorMsg = error?.cause?.reason || error.message
ErrorMsg(e) == IF e.cause # "none" THEN Text(e.cause) ELSE Message(e)

\* IsFundingError gone wrong: the test that rethrows is left out
IsFundingErrorAlways(errorMsg) == TRUE

\* the negation of the test that rethrows in initiateDraw
IsFundingError(errorMsg) ==
  \/ Includes(ToLowerCase(errorMsg), PatValueNotEnough)
  \/ Includes(ToLowerCase(errorMsg), PatInsufficient)
  \/ Includes(ToLowerCase(errorMsg), PatUnderpriced)

\* NextAttempt gone wrong: the loop steps over a candidate
NextAttemptSkips(k) == k + 2

\* the for loop of initiateDraw: the index after attempt i was rejected
NextAttempt(k) == k + 1

\* the value of funding attempt i, as it is sent
AttemptValue(k) == WITNET_FUNDING_ATTEMPTS[k + 1]

\* throw new Error("All attempts to fund Witnet randomness have failed.")
ExhaustedError == [cause |-> "none", text |-> "Exhausted", wrap |-> "none"]

\* what a read throws
ReadError == [cause |-> "none", text |-> "Http", wrap |-> "none"]

\* setRandomAndWinningNumbers(gameNumber), for the response o of the contract
setRandomAndWinningNumbers(o) ==
  IF o.ok THEN [threw |-> FALSE, err |-> NoErr]
  ELSE [threw |-> TRUE, err |-> Wrap("setRandom", RawError(o))]

\* IsAlreadyCalculated gone wrong: the pattern is written in lower case
IsAlreadyCalculatedLower(e) ==
  \/ Includes(Message(e), ToLowerCase(PatAlreadyShort))
  \/ e.cause # "none" /\ Includes(Text(e.cause), ToLowerCase(PatAlreadyShort))

\* the test of the catch block of calculatePayouts
IsAlreadyCalculated(e) ==
  \/ Includes(Message(e), PatAlreadyShort)
  \/ e.cause # "none" /\ Includes(Text(e.cause), PatAlreadyShort)

\* calculatePayouts(gameNumber), for the response o of the contract
calculatePayouts(o) ==
  IF o.ok THEN [threw |-> FALSE, err |-> NoErr]
  ELSE IF IsAlreadyCalculated(RawError(o))
       THEN [threw |-> FALSE, err |-> NoErr]
       ELSE [threw |-> TRUE, err |-> Wrap("calc", RawError(o))]

\* IsNotYetAvailable gone wrong: the message is never recognised
IsNotYetAvailableNever(e) == FALSE

\* err.message.includes("Random number not yet available")
IsNotYetAvailable(e) == Includes(Message(e), PatNotYetAvail)

\* calculateInterval gone wrong: the two intervals of a draw in progress
\* are taken the wrong way round
calculateIntervalSwapped(status, timeUntilDraw, randomValue) ==
  IF status = 1
  THEN IF randomValue = 0 THEN DRAWING_IN_PROGRESS ELSE WAITING_FOR_RANDOM
  ELSE IF status = 0
       THEN IF timeUntilDraw > 12 * 3600 THEN FAR_FROM_DRAW
            ELSE IF timeUntilDraw > 2 * 3600 THEN APPROACHING_DRAW
            ELSE IF 2 * timeUntilDraw > 3600 THEN CLOSE_TO_DRAW
            ELSE VERY_CLOSE
       ELSE FAR_FROM_DRAW

\* calculateInterval gone wrong: the comparisons take the boundary with them
calculateIntervalInclusive(status, timeUntilDraw, randomValue) ==
  IF status = 1
  THEN IF randomValue = 0 THEN WAITING_FOR_RANDOM ELSE DRAWING_IN_PROGRESS
  ELSE IF status = 0
       THEN IF timeUntilDraw >= 12 * 3600 THEN FAR_FROM_DRAW
            ELSE IF timeUntilDraw >= 2 * 3600 THEN APPROACHING_DRAW
            ELSE IF 2 * timeUntilDraw >= 3600 THEN CLOSE_TO_DRAW
            ELSE VERY_CLOSE
       ELSE FAR_FROM_DRAW

\* calculateInterval(status, timeUntilDraw, randomValue); hoursUntilDraw is
\* timeUntilDraw / 3600, so each comparison is taken on the seconds
calculateInterval(status, timeUntilDraw, randomValue) ==
  IF status = 1
  THEN IF randomValue = 0 THEN WAITING_FOR_RANDOM ELSE DRAWING_IN_PROGRESS
  ELSE IF status = 0
       THEN IF timeUntilDraw > 12 * 3600 THEN FAR_FROM_DRAW
            ELSE IF timeUntilDraw > 2 * 3600 THEN APPROACHING_DRAW
            ELSE IF 2 * timeUntilDraw > 3600 THEN CLOSE_TO_DRAW
            ELSE VERY_CLOSE
       ELSE FAR_FROM_DRAW

\* StillDrawing gone wrong: only status 1 counts as still being drawn
StillDrawingOnlyDrawing(status) == status = 1

\* if (activeGameInfo.status !== 2): the active game is still being drawn
StillDrawing(status) == status # 2

\* DispatchTarget gone wrong: the active game does not replace the current one
DispatchTargetCurrent(active, activeStatus, currentNumber) == currentNumber

\* let gameNum = currentInfo.gameNumber, replaced by activeDrawingGame while
\* the active game is still being drawn
DispatchTarget(active, activeStatus, currentNumber) ==
  IF active # Null /\ StillDrawing(activeStatus) THEN active ELSE currentNumber

\* DrawTimeReached gone wrong: the comparison is turned around
DrawTimeReachedInverted(timeUntilDraw) == timeUntilDraw >= 0

\* if (currentInfo.timeUntilDraw <= 0)
DrawTimeReached(timeUntilDraw) == timeUntilDraw <= 0

\* RandomUnset gone wrong: the test is negated
RandomUnsetNegated(randomValue) == randomValue # 0

\* if (info.randomValue === 0n)
RandomUnset(randomValue) == randomValue = 0

\* if (!notifiedGames.has(g))
ShouldNotify(notified, g) == g \notin notified

\* NotifiedAfter gone wrong: the id after g is recorded
NotifiedAfterNext(notified, g, delivered) ==
  IF delivered THEN notified \cup {g + 1} ELSE notified

\* try { await notifyRoundComplete(g); notifiedGames.add(g) } catch { log }
NotifiedAfter(notified, g, delivered) ==
  IF delivered THEN notified \cup {g} ELSE notified

\* CatchDelay gone wrong: the catch block returns the shortest interval
CatchDelayShortest == DRAWING_IN_PROGRESS

\* return INTERVALS.FAR_FROM_DRAW in the catch block of checkAndProcessGame
CatchDelay == FAR_FROM_DRAW

\* one more POST counted for game g
Counted(g) ==
  [notifyCount EXCEPT ![g] = IF @ < MaxNotify THEN @ + 1 ELSE @]

\* a contract call as the history keeps it
Call(act, g, value, o) ==
  [act |-> act, game |-> g, value |-> value, reason |-> o.reason,
   cause |-> o.cause, sim |-> o.sim]

\* the locals and the history of a cycle, before it starts
FreshCycle ==
  /\ currentInfo' = NoCurrent
  /\ gameNum' = Null
  /\ info' = NoInfo
  /\ i' = 0
  /\ err' = NoErr
  /\ delay' = 0
  /\ startActive' = activeDrawingGame
  /\ startNotified' = notifiedGames
  /\ obsTime' = -1
  /\ sawCompleted' = {}
  /\ reads' = {}
  /\ readFailed' = FALSE
  /\ writes' = << >>

----------------------------------------------------------------------------
(* The autonomous loop: mainLoop and checkAndProcessGame *)

AutoStep(at) == Running /\ mode = "autonomous" /\ pc = at

\* AutoReturn gone wrong: the interval is not handed back
AutoReturnKeeps(d) == pc' = "sleep" /\ delay' = delay /\ err' = err

\* return d
AutoReturn(d) == pc' = "sleep" /\ delay' = d /\ err' = err

\* AutoCatch gone wrong: the failed step is tried again in the same cycle
AutoCatchInline(e) == pc' = pc /\ delay' = delay /\ err' = e

\* catch (err) { return INTERVALS.FAR_FROM_DRAW }
AutoCatch(e) == pc' = "sleep" /\ delay' = CatchDelay /\ err' = e

\* const currentInfo = await getCurrentGameInfo(); let gameNum = ...
Auto_ReadCurrent ==
  /\ AutoStep("start")
  /\ obsTime' = tleft
  /\ \E ok \in BOOLEAN :
       IF ok
       THEN /\ currentInfo' = ReadCurrent
            /\ gameNum' = ReadCurrent.gameNumber
            /\ pc' = IF activeDrawingGame # Null THEN "readActive"
                     ELSE "readInfo"
            /\ UNCHANGED <<err, delay, readFailed>>
       ELSE /\ AutoCatch(ReadError)
            /\ readFailed' = TRUE
            /\ UNCHANGED <<currentInfo, gameNum>>
  /\ UNCHANGED <<activeDrawingGame, notifiedGames, info, i>>
  /\ UNCHANGED <<startActive, startNotified, sawCompleted, reads, writes,
                 notifyCount>>
  /\ UNCHANGED <<ledgerVars, configVars, exitCode, vdfVars>>

\* const activeGameInfo = await getDetailedGameInfo(activeDrawingGame)
\* and the branch on its status
Auto_ReadActive ==
  /\ AutoStep("readActive")
  /\ \E ok \in BOOLEAN :
       IF ok
       THEN LET a == ReadDetailed(activeDrawingGame) IN
            /\ info' = a
            /\ reads' = reads \cup {activeDrawingGame}
            /\ gameNum' = DispatchTarget(activeDrawingGame, a.status,
                                         currentInfo.gameNumber)
            /\ readFailed' = readFailed
            /\ sawCompleted' = IF a.status = Completed
                               THEN sawCompleted \cup {activeDrawingGame}
                               ELSE sawCompleted
            /\ IF StillDrawing(a.status)
               THEN /\ IF a.status = 1
                       THEN /\ pc' = IF RandomUnset(a.randomValue)
                                     THEN "setRandom" ELSE "calc"
                            /\ UNCHANGED <<err, delay>>
                       ELSE AutoReturn(DRAWING_IN_PROGRESS)
                    /\ UNCHANGED activeDrawingGame
               ELSE /\ IF ShouldNotify(notifiedGames, activeDrawingGame)
                       THEN /\ pc' = "notifyActive"
                            /\ UNCHANGED activeDrawingGame
                       ELSE /\ pc' = "readInfo"
                            /\ activeDrawingGame' = Null
                    /\ UNCHANGED <<err, delay>>
       ELSE /\ AutoCatch(ReadError)
            /\ readFailed' = TRUE
            /\ UNCHANGED <<info, reads, gameNum, activeDrawingGame,
                           sawCompleted>>
  /\ UNCHANGED <<notifiedGames, currentInfo, i>>
  /\ UNCHANGED <<startActive, startNotified, obsTime, writes, notifyCount>>
  /\ UNCHANGED <<ledgerVars, configVars, exitCode, vdfVars>>

\* Auto_NotifyActive gone wrong: "Moving to game #N" makes the current
\* game the active one instead of clearing activeDrawingGame
Auto_NotifyActiveMoves ==
  /\ AutoStep("notifyActive")
  /\ IF lambdaConfigured
     THEN /\ notifyCount' = Counted(activeDrawingGame)
          /\ pc' = "postActive"
          /\ UNCHANGED <<notifiedGames, activeDrawingGame>>
     ELSE /\ notifiedGames' =
               NotifiedAfter(notifiedGames, activeDrawingGame, TRUE)
          /\ activeDrawingGame' = currentInfo.gameNumber
          /\ pc' = "readInfo"
          /\ UNCHANGED notifyCount
  /\ UNCHANGED <<currentInfo, gameNum, info, i, err, delay>>
  /\ UNCHANGED <<startActive, startNotified, obsTime, sawCompleted, reads,
                 readFailed, writes>>
  /\ UNCHANGED <<ledgerVars, configVars, exitCode, vdfVars>>

\* await setTimeout(3000) ends and notifyRoundComplete(activeDrawingGame)
\* sends its POST; without the lambda it returns at once: notifiedGames.add,
\* activeDrawingGame = null
Auto_NotifyActive ==
  /\ AutoStep("notifyActive")
  /\ IF lambdaConfigured
     THEN /\ notifyCount' = Counted(activeDrawingGame)
          /\ pc' = "postActive"
          /\ UNCHANGED <<notifiedGames, activeDrawingGame>>
     ELSE /\ notifiedGames' =
               NotifiedAfter(notifiedGames, activeDrawingGame, TRUE)
          /\ activeDrawingGame' = Null
          /\ pc' = "readInfo"
          /\ UNCHANGED notifyCount
  /\ UNCHANGED <<currentInfo, gameNum, info, i, err, delay>>
  /\ UNCHANGED <<startActive, startNotified, obsTime, sawCompleted, reads,
                 readFailed, writes>>
  /\ UNCHANGED <<ledgerVars, configVars, exitCode, vdfVars>>

\* the POST of notifyRoundComplete(activeDrawingGame) is answered or fails:
\* notifiedGames.add inside the try; activeDrawingGame = null
Auto_PostActive ==
  /\ AutoStep("postActive")
  /\ \E delivered \in BOOLEAN :
       notifiedGames' =
         NotifiedAfter(notifiedGames, activeDrawingGame, delivered)
  /\ activeDrawingGame' = Null
  /\ pc' = "readInfo"
  /\ UNCHANGED notifyCount
  /\ UNCHANGED <<currentInfo, gameNum, info, i, err, delay>>
  /\ UNCHANGED <<startActive, startNotified, obsTime, sawCompleted, reads,
                 readFailed, writes>>
  /\ UNCHANGED <<ledgerVars, configVars, exitCode, vdfVars>>

\* const info = await getDetailedGameInfo(gameNum) and the branch on status
Auto_ReadInfo ==
  /\ AutoStep("readInfo")
  /\ \E ok \in BOOLEAN :
       IF ok
       THEN LET d == ReadDetailed(gameNum) IN
            /\ info' = d
            /\ reads' = reads \cup {gameNum}
            /\ readFailed' = readFailed
            /\ CASE d.status = 0 ->
                      /\ IF DrawTimeReached(currentInfo.timeUntilDraw)
                         THEN pc' = "initiate" /\ UNCHANGED <<err, delay>>
                         ELSE AutoReturn(calculateInterval(d.status,
                                currentInfo.timeUntilDraw, d.randomValue))
                      /\ UNCHANGED <<activeDrawingGame, sawCompleted>>
                 [] d.status = 1 ->
                      /\ activeDrawingGame' = gameNum
                      /\ pc' = IF RandomUnset(d.randomValue)
                               THEN "setRandom" ELSE "calc"
                      /\ UNCHANGED <<err, delay, sawCompleted>>
                 [] d.status = 2 ->
                      /\ sawCompleted' = sawCompleted \cup {gameNum}
                      /\ pc' = IF ShouldNotify(notifiedGames, gameNum)
                               THEN "notify" ELSE "readNext"
                      /\ UNCHANGED <<err, delay, activeDrawingGame>>
       ELSE /\ AutoCatch(ReadError)
            /\ readFailed' = TRUE
            /\ UNCHANGED <<info, reads, activeDrawingGame, sawCompleted>>
  /\ i' = 0
  /\ UNCHANGED <<notifiedGames, currentInfo, gameNum>>
  /\ UNCHANGED <<startActive, startNotified, obsTime, writes, notifyCount>>
  /\ UNCHANGED <<ledgerVars, configVars, exitCode, vdfVars>>

\* one turn of the for loop of initiateDraw, and what follows its return
Auto_Initiate ==
  /\ AutoStep("initiate")
  /\ \E o \in Responses("initiateDraw", cur, AttemptValue(i), FALSE) :
       /\ Effect("initiateDraw", cur, o.applied)
       /\ writes' = Append(writes,
                      Call("initiateDraw", gameNum, AttemptValue(i), o))
       /\ IF o.ok
          THEN /\ activeDrawingGame' = gameNum
               /\ AutoReturn(DRAWING_IN_PROGRESS)
               /\ i' = i
          ELSE /\ UNCHANGED activeDrawingGame
               /\ IF ~IsFundingError(ErrorMsg(RawError(o)))
                  THEN AutoCatch(RawError(o)) /\ i' = i
                  ELSE IF NextAttempt(i) < Len(WITNET_FUNDING_ATTEMPTS)
                       THEN /\ i' = NextAttempt(i)
                            /\ UNCHANGED <<pc, err, delay>>
                       ELSE AutoCatch(ExhaustedError) /\ i' = NextAttempt(i)
  /\ UNCHANGED <<notifiedGames, currentInfo, gameNum, info>>
  /\ UNCHANGED <<startActive, startNotified, obsTime, sawCompleted, reads,
                 readFailed,
                 notifyCount>>
  /\ UNCHANGED <<configVars, exitCode, vdfVars>>

\* await setRandomAndWinningNumbers(gameNum) inside its try and catch:
\* await publicClient.simulateContract(...)
Auto_SetRandom ==
  /\ AutoStep("setRandom")
  /\ \/ /\ SimulationPasses("setRandom", gameNum)
        /\ pc' = "setRandomWrite"
        /\ UNCHANGED <<writes, err, delay, exitCode>>
     \/ \E o \in SimulationFailures("setRandom", gameNum) :
          /\ writes' = Append(writes, Call("setRandom", gameNum, 0, o))
          /\ LET r == setRandomAndWinningNumbers(o) IN
             (IF ~r.threw \/ IsNotYetAvailable(r.err)
              THEN AutoReturn(WAITING_FOR_RANDOM)
              ELSE AutoCatch(r.err)) /\ UNCHANGED exitCode
  /\ UNCHANGED ledgerVars
  /\ UNCHANGED <<activeDrawingGame, notifiedGames, currentInfo, gameNum,
                 info, i>>
  /\ UNCHANGED <<startActive, startNotified, obsTime, sawCompleted, reads,
                 readFailed,
                 notifyCount>>
  /\ UNCHANGED <<configVars, vdfVars>>

\* await walletClient.writeContract(request) of setRandomAndWinningNumbers,
\* and the try and catch around the call
Auto_SetRandomWrite ==
  /\ AutoStep("setRandomWrite")
  /\ \E o \in Responses("setRandom", gameNum, 0, TRUE) :
       /\ Effect("setRandom", gameNum, o.applied)
       /\ writes' = Append(writes, Call("setRandom", gameNum, 0, o))
       /\ LET r == setRandomAndWinningNumbers(o) IN
          (IF ~r.threw \/ IsNotYetAvailable(r.err)
           THEN AutoReturn(WAITING_FOR_RANDOM)
           ELSE AutoCatch(r.err)) /\ UNCHANGED exitCode
  /\ UNCHANGED <<activeDrawingGame, notifiedGames, currentInfo, gameNum,
                 info, i>>
  /\ UNCHANGED <<startActive, startNotified, obsTime, sawCompleted, reads,
                 readFailed,
                 notifyCount>>
  /\ UNCHANGED <<configVars, vdfVars>>

\* await calculatePayouts(gameNum): await publicClient.simulateContract(...)
Auto_Calc ==
  /\ AutoStep("calc")
  /\ \/ /\ SimulationPasses("calculatePayouts", gameNum)
        /\ pc' = "calcWrite"
        /\ UNCHANGED <<writes, err, delay, exitCode>>
     \/ \E o \in SimulationFailures("calculatePayouts", gameNum) :
          /\ writes' = Append(writes, Call("calculatePayouts", gameNum, 0, o))
          /\ LET r == calculatePayouts(o) IN
             (IF r.threw THEN AutoCatch(r.err)
              ELSE AutoReturn(DRAWING_IN_PROGRESS)) /\ UNCHANGED exitCode
  /\ UNCHANGED ledgerVars
  /\ UNCHANGED <<activeDrawingGame, notifiedGames, currentInfo, gameNum,
                 info, i>>
  /\ UNCHANGED <<startActive, startNotified, obsTime, sawCompleted, reads,
                 readFailed,
                 notifyCount>>
  /\ UNCHANGED <<configVars, vdfVars>>

\* await walletClient.writeContract(request) of calculatePayouts;
\* return INTERVALS.DRAWING_IN_PROGRESS
Auto_CalcWrite ==
  /\ AutoStep("calcWrite")
  /\ \E o \in Responses("calculatePayouts", gameNum, 0, TRUE) :
       /\ Effect("calculatePayouts", gameNum, o.applied)
       /\ writes' = Append(writes, Call("calculatePayouts", gameNum, 0, o))
       /\ LET r == calculatePayouts(o) IN
          (IF r.threw THEN AutoCatch(r.err)
           ELSE AutoReturn(DRAWING_IN_PROGRESS)) /\ UNCHANGED exitCode
  /\ UNCHANGED <<activeDrawingGame, notifiedGames, currentInfo, gameNum,
                 info, i>>
  /\ UNCHANGED <<startActive, startNotified, obsTime, sawCompleted, reads,
                 readFailed,
                 notifyCount>>
  /\ UNCHANGED <<configVars, vdfVars>>

\* status 2: await setTimeout(3000) ends and notifyRoundComplete(gameNum)
\* sends its POST; without the lambda it returns at once: notifiedGames.add
Auto_Notify ==
  /\ AutoStep("notify")
  /\ IF lambdaConfigured
     THEN /\ notifyCount' = Counted(gameNum)
          /\ pc' = "post"
          /\ UNCHANGED notifiedGames
     ELSE /\ notifiedGames' = NotifiedAfter(notifiedGames, gameNum, TRUE)
          /\ pc' = "readNext"
          /\ UNCHANGED notifyCount
  /\ UNCHANGED activeDrawingGame
  /\ UNCHANGED <<currentInfo, gameNum, info, i, err, delay>>
  /\ UNCHANGED <<startActive, startNotified, obsTime, sawCompleted, reads,
                 readFailed, writes>>
  /\ UNCHANGED <<ledgerVars, configVars, exitCode, vdfVars>>

\* the POST of notifyRoundComplete(gameNum) is answered or fails:
\* notifiedGames.add inside the try
Auto_Post ==
  /\ AutoStep("post")
  /\ \E delivered \in BOOLEAN :
       notifiedGames' = NotifiedAfter(notifiedGames, gameNum, delivered)
  /\ pc' = "readNext"
  /\ UNCHANGED <<activeDrawingGame, notifyCount>>
  /\ UNCHANGED <<currentInfo, gameNum, info, i, err, delay>>
  /\ UNCHANGED <<startActive, startNotified, obsTime, sawCompleted, reads,
                 readFailed, writes>>
  /\ UNCHANGED <<ledgerVars, configVars, exitCode, vdfVars>>

\* const nextGameInfo = await getCurrentGameInfo(); return calculateInterval
Auto_ReadNext ==
  /\ AutoStep("readNext")
  /\ \E ok \in BOOLEAN :
       IF ok
       THEN /\ AutoReturn(calculateInterval(info.status,
                            currentInfo.timeUntilDraw, info.randomValue))
            /\ readFailed' = readFailed
       ELSE /\ AutoCatch(ReadError)
            /\ readFailed' = TRUE
  /\ UNCHANGED <<activeDrawingGame, notifiedGames, currentInfo, gameNum,
                 info, i>>
  /\ UNCHANGED <<startActive, startNotified, obsTime, sawCompleted, reads,
                 writes,
                 notifyCount>>
  /\ UNCHANGED <<ledgerVars, configVars, exitCode, vdfVars>>

\* await setTimeout(intervalMs), then the next turn of while (true)
Auto_Sleep ==
  /\ AutoStep("sleep")
  /\ pc' = "start"
  /\ FreshCycle
  /\ UNCHANGED <<activeDrawingGame, notifiedGames, notifyCount>>
  /\ UNCHANGED <<ledgerVars, configVars, exitCode, vdfVars>>

----------------------------------------------------------------------------
(* The one-shot run: processSpecificGame(forceGameNumber) *)

SingleStep(at) == Running /\ mode = "single" /\ pc = at

\* SingleThrow gone wrong: the error is logged and the loop goes on
SingleThrowLogged(e) ==
  pc' = "sleep" /\ exitCode' = exitCode /\ err' = e /\ delay' = delay

\* an exception leaves processSpecificGame: .catch logs it, process.exit(1)
SingleThrow(e) == pc' = "exited" /\ exitCode' = 1 /\ err' = e /\ delay' = delay

\* await setTimeout(seconds * 1000), then the next turn of while (true)
SingleWait(seconds) ==
  pc' = "sleep" /\ delay' = seconds /\ UNCHANGED <<err, exitCode>>

\* const info = await getDetailedGameInfo(gameNum) and the branch on status
Single_Read ==
  /\ SingleStep("start")
  /\ obsTime' = IF forceGame = cur THEN tleft ELSE 0
  /\ gameNum' = forceGame
  /\ \E ok \in BOOLEAN :
       IF ok
       THEN LET d == ReadDetailed(forceGame) IN
            /\ info' = d
            /\ reads' = reads \cup {forceGame}
            /\ readFailed' = readFailed
            /\ sawCompleted' = IF d.status = 2 THEN sawCompleted \cup {forceGame}
                               ELSE sawCompleted
            /\ pc' = CASE d.status = 0 -> "initiate"
                       [] d.status = 1 ->
                            IF RandomUnset(d.randomValue) THEN "setRandom"
                            ELSE "calc"
                       [] d.status = 2 -> "notify"
            /\ UNCHANGED <<err, delay, exitCode>>
       ELSE /\ SingleThrow(ReadError)
            /\ readFailed' = TRUE
            /\ UNCHANGED <<info, reads, sawCompleted>>
  /\ UNCHANGED <<activeDrawingGame, notifiedGames, currentInfo, i>>
  /\ UNCHANGED <<startActive, startNotified, writes, notifyCount>>
  /\ UNCHANGED <<ledgerVars, configVars, vdfVars>>

\* one turn of the for loop of initiateDraw; await setTimeout(30000)
Single_Initiate ==
  /\ SingleStep("initiate")
  /\ \E o \in Responses("initiateDraw", cur, AttemptValue(i), FALSE) :
       /\ Effect("initiateDraw", cur, o.applied)
       /\ writes' = Append(writes,
                      Call("initiateDraw", gameNum, AttemptValue(i), o))
       /\ IF o.ok
          THEN SingleWait(30) /\ i' = i
          ELSE IF ~IsFundingError(ErrorMsg(RawError(o)))
               THEN SingleThrow(RawError(o)) /\ i' = i
               ELSE IF NextAttempt(i) < Len(WITNET_FUNDING_ATTEMPTS)
                    THEN /\ i' = NextAttempt(i)
                         /\ UNCHANGED <<pc, err, delay, exitCode>>
                    ELSE SingleThrow(ExhaustedError) /\ i' = NextAttempt(i)
  /\ UNCHANGED <<activeDrawingGame, notifiedGames, currentInfo, gameNum, info>>
  /\ UNCHANGED <<startActive, startNotified, obsTime, sawCompleted, reads,
                 readFailed,
                 notifyCount>>
  /\ UNCHANGED <<configVars, vdfVars>>

\* await setRandomAndWinningNumbers(gameNum) inside its try and catch:
\* await publicClient.simulateContract(...)
Single_SetRandom ==
  /\ SingleStep("setRandom")
  /\ \/ /\ SimulationPasses("setRandom", gameNum)
        /\ pc' = "setRandomWrite"
        /\ UNCHANGED <<writes, err, delay, exitCode>>
     \/ \E o \in SimulationFailures("setRandom", gameNum) :
          /\ writes' = Append(writes, Call("setRandom", gameNum, 0, o))
          /\ LET r == setRandomAndWinningNumbers(o) IN
             IF ~r.threw THEN SingleWait(10)
             ELSE IF IsNotYetAvailable(r.err) THEN SingleWait(30)
                  ELSE SingleThrow(r.err)
  /\ UNCHANGED ledgerVars
  /\ UNCHANGED <<activeDrawingGame, notifiedGames, currentInfo, gameNum,
                 info, i>>
  /\ UNCHANGED <<startActive, startNotified, obsTime, sawCompleted, reads,
                 readFailed,
                 notifyCount>>
  /\ UNCHANGED <<configVars, vdfVars>>

\* await walletClient.writeContract(request) of setRandomAndWinningNumbers,
\* and the try and catch around the call
Single_SetRandomWrite ==
  /\ SingleStep("setRandomWrite")
  /\ \E o \in Responses("setRandom", gameNum, 0, TRUE) :
       /\ Effect("setRandom", gameNum, o.applied)
       /\ writes' = Append(writes, Call("setRandom", gameNum, 0, o))
       /\ LET r == setRandomAndWinningNumbers(o) IN
          IF ~r.threw THEN SingleWait(10)
          ELSE IF IsNotYetAvailable(r.err) THEN SingleWait(30)
               ELSE SingleThrow(r.err)
  /\ UNCHANGED <<activeDrawingGame, notifiedGames, currentInfo, gameNum,
                 info, i>>
  /\ UNCHANGED <<startActive, startNotified, obsTime, sawCompleted, reads,
                 readFailed,
                 notifyCount>>
  /\ UNCHANGED <<configVars, vdfVars>>

\* await calculatePayouts(gameNum): await publicClient.simulateContract(...)
Single_Calc ==
  /\ SingleStep("calc")
  /\ \/ /\ SimulationPasses("calculatePayouts", gameNum)
        /\ pc' = "calcWrite"
        /\ UNCHANGED <<writes, err, delay, exitCode>>
     \/ \E o \in SimulationFailures("calculatePayouts", gameNum) :
          /\ writes' = Append(writes, Call("calculatePayouts", gameNum, 0, o))
          /\ LET r == calculatePayouts(o) IN
             IF r.threw THEN SingleThrow(r.err) ELSE SingleWait(10)
  /\ UNCHANGED ledgerVars
  /\ UNCHANGED <<activeDrawingGame, notifiedGames, currentInfo, gameNum,
                 info, i>>
  /\ UNCHANGED <<startActive, startNotified, obsTime, sawCompleted, reads,
                 readFailed,
                 notifyCount>>
  /\ UNCHANGED <<configVars, vdfVars>>

\* await walletClient.writeContract(request) of calculatePayouts;
\* await setTimeout(10000)
Single_CalcWrite ==
  /\ SingleStep("calcWrite")
  /\ \E o \in Responses("calculatePayouts", gameNum, 0, TRUE) :
       /\ Effect("calculatePayouts", gameNum, o.applied)
       /\ writes' = Append(writes, Call("calculatePayouts", gameNum, 0, o))
       /\ LET r == calculatePayouts(o) IN
          IF r.threw THEN SingleThrow(r.err) ELSE SingleWait(10)
  /\ UNCHANGED <<activeDrawingGame, notifiedGames, currentInfo, gameNum,
                 info, i>>
  /\ UNCHANGED <<startActive, startNotified, obsTime, sawCompleted, reads,
                 readFailed,
                 notifyCount>>
  /\ UNCHANGED <<configVars, vdfVars>>

\* status 2: notifyRoundComplete(gameNum) in try and catch: the POST is
\* sent; without LAMBDA_URL it returns at once and process.exit(0) follows
Single_Notify ==
  /\ SingleStep("notify")
  /\ IF lambdaConfigured
     THEN /\ notifyCount' = Counted(gameNum)
          /\ pc' = "post"
          /\ UNCHANGED exitCode
     ELSE /\ UNCHANGED notifyCount
          /\ pc' = "exited"
          /\ exitCode' = 0
  /\ UNCHANGED <<activeDrawingGame, notifiedGames, currentInfo, gameNum,
                 info, i, err, delay>>
  /\ UNCHANGED <<startActive, startNotified, obsTime, sawCompleted, reads,
                 readFailed, writes>>
  /\ UNCHANGED <<ledgerVars, configVars, vdfVars>>

\* the POST of notifyRoundComplete(gameNum) is answered or fails, which
\* the catch logs; process.exit(0)
Single_Post ==
  /\ SingleStep("post")
  /\ pc' = "exited"
  /\ exitCode' = 0
  /\ UNCHANGED <<activeDrawingGame, notifiedGames, notifyCount, currentInfo,
                 gameNum, info, i, err, delay>>
  /\ UNCHANGED <<startActive, startNotified, obsTime, sawCompleted, reads,
                 readFailed, writes>>
  /\ UNCHANGED <<ledgerVars, configVars, vdfVars>>

\* the setTimeout ends; the next turn of while (true)
Single_Sleep ==
  /\ SingleStep("sleep")
  /\ pc' = "start"
  /\ FreshCycle
  /\ UNCHANGED <<activeDrawingGame, notifiedGames, notifyCount>>
  /\ UNCHANGED <<ledgerVars, configVars, exitCode, vdfVars>>

----------------------------------------------------------------------------
(* The earlier Witnet bot, src/unnamed/part_000: mainLoop and checkGameFlow *)

FlowStep(at) == Running /\ mode = "flow" /\ pc = at

\* attemptValue.toString() is in exponent notation below 0.000001 ETH
\* (1000 gwei), and parseEther throws on a string that is no decimal number
ParseEtherThrows(gwei) == gwei < 1000

\* what parseEther throws
ParseError == [cause |-> "none", text |-> "InvalidDecimal", wrap |-> "none"]

\* the test of the catch block of calculatePayouts in part_000
IsAlreadyCalculatedFlow(e) ==
  \/ Includes(Message(e), PatAlreadyLong)
  \/ e.cause # "none" /\ Includes(Text(e.cause), PatAlreadyLong)

\* calculatePayouts(gameNumber) of part_000
calculatePayoutsFlow(o) ==
  IF o.ok THEN [threw |-> FALSE, err |-> NoErr]
  ELSE IF IsAlreadyCalculatedFlow(RawError(o))
       THEN [threw |-> FALSE, err |-> NoErr]
       ELSE [threw |-> TRUE, err |-> Wrap("calc", RawError(o))]

\* checkGameFlow returns; mainLoop sleeps for the interval
FlowReturn == pc' = "sleep" /\ UNCHANGED <<err, delay, exitCode>>

\* catch (err) { console.error(...) } of checkGameFlow
FlowCatch(e) == pc' = "sleep" /\ err' = e /\ UNCHANGED <<delay, exitCode>>

\* const info = await getDetailedGameInfo(gameNum) and the branch on status
Flow_Read ==
  /\ FlowStep("start")
  /\ obsTime' = IF forceGame = cur THEN tleft ELSE 0
  /\ gameNum' = forceGame
  /\ \E ok \in BOOLEAN :
       IF ok
       THEN LET d == ReadDetailed(forceGame) IN
            /\ info' = d
            /\ reads' = reads \cup {forceGame}
            /\ readFailed' = readFailed
            /\ sawCompleted' = IF d.status = 2 THEN sawCompleted \cup {forceGame}
                               ELSE sawCompleted
            /\ IF d.status = 2
               THEN pc' = "exited" /\ exitCode' = 0
               ELSE /\ pc' = IF d.status = 0 THEN "initiate"
                             ELSE IF RandomUnset(d.randomValue)
                                  THEN "setRandom" ELSE "calc"
                    /\ UNCHANGED exitCode
            /\ UNCHANGED <<err, delay>>
       ELSE /\ FlowCatch(ReadError)
            /\ readFailed' = TRUE
            /\ UNCHANGED <<info, reads, sawCompleted>>
  /\ UNCHANGED <<activeDrawingGame, notifiedGames, currentInfo, i>>
  /\ UNCHANGED <<startActive, startNotified, writes, notifyCount>>
  /\ UNCHANGED <<ledgerVars, configVars, vdfVars>>

\* one turn of the for loop of initiateDraw of part_000
Flow_Initiate ==
  /\ FlowStep("initiate")
  /\ IF ParseEtherThrows(AttemptValue(i))
     THEN /\ FlowCatch(ParseError)
          /\ UNCHANGED <<i, writes, ledgerVars>>
     ELSE \E o \in Responses("initiateDraw", cur, AttemptValue(i), FALSE) :
            /\ Effect("initiateDraw", cur, o.applied)
            /\ writes' = Append(writes,
                           Call("initiateDraw", gameNum, AttemptValue(i), o))
            /\ IF o.ok
               THEN FlowReturn /\ i' = i
               ELSE IF ~IsFundingError(ErrorMsg(RawError(o)))
                    THEN FlowCatch(RawError(o)) /\ i' = i
                    ELSE IF NextAttempt(i) < Len(WITNET_FUNDING_ATTEMPTS)
                         THEN /\ i' = NextAttempt(i)
                              /\ UNCHANGED <<pc, err, delay, exitCode>>
                         ELSE FlowCatch(ExhaustedError) /\ i' = NextAttempt(i)
  /\ UNCHANGED <<activeDrawingGame, notifiedGames, currentInfo, gameNum, info>>
  /\ UNCHANGED <<startActive, startNotified, obsTime, sawCompleted, reads,
                 readFailed,
                 notifyCount>>
  /\ UNCHANGED <<configVars, vdfVars>>

\* await setRandomAndWinningNumbers(gameNum):
\* await publicClient.simulateContract(...)
Flow_SetRandom ==
  /\ FlowStep("setRandom")
  /\ \/ /\ SimulationPasses("setRandom", gameNum)
        /\ pc' = "setRandomWrite"
        /\ UNCHANGED <<writes, err, delay, exitCode>>
     \/ \E o \in SimulationFailures("setRandom", gameNum) :
          /\ writes' = Append(writes, Call("setRandom", gameNum, 0, o))
          /\ LET r == setRandomAndWinningNumbers(o) IN
             IF r.threw THEN FlowCatch(r.err) ELSE FlowReturn
  /\ UNCHANGED ledgerVars
  /\ UNCHANGED <<activeDrawingGame, notifiedGames, currentInfo, gameNum,
                 info, i>>
  /\ UNCHANGED <<startActive, startNotified, obsTime, sawCompleted, reads,
                 readFailed,
                 notifyCount>>
  /\ UNCHANGED <<configVars, vdfVars>>

\* await walletClient.writeContract(request) of setRandomAndWinningNumbers
Flow_SetRandomWrite ==
  /\ FlowStep("setRandomWrite")
  /\ \E o \in Responses("setRandom", gameNum, 0, TRUE) :
       /\ Effect("setRandom", gameNum, o.applied)
       /\ writes' = Append(writes, Call("setRandom", gameNum, 0, o))
       /\ LET r == setRandomAndWinningNumbers(o) IN
          IF r.threw THEN FlowCatch(r.err) ELSE FlowReturn
  /\ UNCHANGED <<activeDrawingGame, notifiedGames, currentInfo, gameNum,
                 info, i>>
  /\ UNCHANGED <<startActive, startNotified, obsTime, sawCompleted, reads,
                 readFailed,
                 notifyCount>>
  /\ UNCHANGED <<configVars, vdfVars>>

\* await calculatePayouts(gameNum): await publicClient.simulateContract(...)
Flow_Calc ==
  /\ FlowStep("calc")
  /\ \/ /\ SimulationPasses("calculatePayouts", gameNum)
        /\ pc' = "calcWrite"
        /\ UNCHANGED <<writes, err, delay, exitCode>>
     \/ \E o \in SimulationFailures("calculatePayouts", gameNum) :
          /\ writes' = Append(writes, Call("calculatePayouts", gameNum, 0, o))
          /\ LET r == calculatePayoutsFlow(o) IN
             IF r.threw THEN FlowCatch(r.err) ELSE FlowReturn
  /\ UNCHANGED ledgerVars
  /\ UNCHANGED <<activeDrawingGame, notifiedGames, currentInfo, gameNum,
                 info, i>>
  /\ UNCHANGED <<startActive, startNotified, obsTime, sawCompleted, reads,
                 readFailed,
                 notifyCount>>
  /\ UNCHANGED <<configVars, vdfVars>>

\* await walletClient.writeContract(request) of calculatePayouts
Flow_CalcWrite ==
  /\ FlowStep("calcWrite")
  /\ \E o \in Responses("calculatePayouts", gameNum, 0, TRUE) :
       /\ Effect("calculatePayouts", gameNum, o.applied)
       /\ writes' = Append(writes, Call("calculatePayouts", gameNum, 0, o))
       /\ LET r == calculatePayoutsFlow(o) IN
          IF r.threw THEN FlowCatch(r.err) ELSE FlowReturn
  /\ UNCHANGED <<activeDrawingGame, notifiedGames, currentInfo, gameNum,
                 info, i>>
  /\ UNCHANGED <<startActive, startNotified, obsTime, sawCompleted, reads,
                 readFailed,
                 notifyCount>>
  /\ UNCHANGED <<configVars, vdfVars>>

\* await setTimeout(intervalMs), then the next turn of while (true)
Flow_Sleep ==
  /\ FlowStep("sleep")
  /\ pc' = "start"
  /\ FreshCycle
  /\ UNCHANGED <<activeDrawingGame, notifiedGames, notifyCount>>
  /\ UNCHANGED <<ledgerVars, configVars, exitCode, vdfVars>>

----------------------------------------------------------------------------
(* The VDF bot, src/update-game-bot/bot.js lines 540-834.  setInterval     *)
(* calls checkAndProcessGame every ten minutes and does not wait for the   *)
(* call before: up to MaxInFlight calls run at once.  A call is the await  *)
(* it is at, its locals gameNumber and gameInfo, and the contract calls it *)
(* has made.                                                               *)

\* the calls of checkAndProcessGame that have not returned
VdfRunning == BagToSet(vrun)

VdfStep(r, at) ==
  Running /\ mode \in VdfModes /\ r \in VdfRunning /\ r.at = at

\* the test of the catch block of calculatePayouts of the VDF bot
IsAlreadyCalculatedVdf(e) == Includes(Message(e), PatAlreadyLong)

\* the call r goes on as r2
VdfGoes(r, r2) ==
  /\ vrun' = (vrun (-) SetToBag({r})) (+) SetToBag({r2})
  /\ vlast' = NoCall

\* what is kept of a call that has returned: its contract calls and what
\* it read, when it made contract calls
Returned(r) ==
  IF r.calls = << >> THEN NoCall ELSE [r EXCEPT !.at = "returned"]

\* checkAndProcessGame returns, also from its catch block
VdfDone(r, r2) ==
  /\ vrun' = vrun (-) SetToBag({r})
  /\ vlast' = Returned(r2)

\* process.exit(0) in the call r: the process ends, and with it every
\* call of checkAndProcessGame under way
VdfExits(r, r2) ==
  /\ r \in VdfRunning
  /\ vrun' = EmptyBag
  /\ vlast' = Returned(r2)
  /\ exitCode' = 0

\* the call r with one more contract call
VdfCall(r, act, o) ==
  [r EXCEPT !.calls = Append(@, Call(act, r.gameNumber, 0, o))]

\* the timer fires: checkAndProcessGame(specificGameNumber) starts
Vdf_Fire ==
  /\ Running
  /\ mode \in VdfModes
  /\ BagCardinality(vrun) < MaxInFlight
  /\ vrun' = vrun (+) SetToBag({
       IF mode = "vdfGame"
       THEN [NoCall EXCEPT !.at = "readInfo", !.gameNumber = forceGame]
       ELSE [NoCall EXCEPT !.at = "readNumber"]})
  /\ vlast' = NoCall
  /\ UNCHANGED <<ledgerVars, configVars, exitCode, botVars, histVars,
                 notifyCount>>

\* gameNumber = await publicClient.readContract("currentGameNumber")
Vdf_ReadNumber(r) ==
  /\ VdfStep(r, "readNumber")
  /\ \E ok \in BOOLEAN :
       IF ok
       THEN VdfGoes(r, [r EXCEPT !.at = "readInfo", !.gameNumber = cur])
       ELSE VdfDone(r, r)
  /\ UNCHANGED <<ledgerVars, configVars, exitCode, botVars, histVars,
                 notifyCount>>

\* const gameInfo = await getDetailedGameInfo(...) and the branch on it
Vdf_ReadInfo(r) ==
  /\ VdfStep(r, "readInfo")
  /\ \E ok \in BOOLEAN :
       IF ok
       THEN LET d == ReadDetailed(r.gameNumber)
                r2 == [r EXCEPT !.gameInfo = d]
            IN IF d.status = 2
               THEN VdfExits(r, r2)
               ELSE /\ UNCHANGED exitCode
                    /\ VdfGoes(r, [r2 EXCEPT !.at =
                         IF d.status = 0 THEN "initiate"
                         ELSE IF RandomUnset(d.randomValue) THEN "blockNumber"
                              ELSE "prove"])
       ELSE VdfDone(r, r) /\ UNCHANGED exitCode
  /\ UNCHANGED <<ledgerVars, configVars, botVars, histVars, notifyCount>>

\* await initiateDraw(walletClient, publicClient, contractAddress):
\* await publicClient.simulateContract(...)
Vdf_Initiate(r) ==
  /\ VdfStep(r, "initiate")
  /\ \/ /\ SimulationPasses("initiateDraw", cur)
        /\ VdfGoes(r, [r EXCEPT !.at = "initiateWrite"])
     \/ \E o \in SimulationFailures("initiateDraw", cur) :
          VdfDone(r, VdfCall(r, "initiateDraw", o))
  /\ UNCHANGED <<ledgerVars, configVars, exitCode, botVars, histVars,
                 notifyCount>>

\* await walletClient.writeContract(request) of initiateDraw
Vdf_InitiateWrite(r) ==
  /\ VdfStep(r, "initiateWrite")
  /\ \E o \in Responses("initiateDraw", cur, 0, TRUE) :
       /\ Effect("initiateDraw", cur, o.applied)
       /\ VdfDone(r, VdfCall(r, "initiateDraw", o))
  /\ UNCHANGED <<configVars, exitCode, botVars, histVars, notifyCount>>

\* const currentBlock = await publicClient.getBlockNumber();
\* if (currentBlock >= gameInfo.drawInitiatedBlock + BigInt(5))
Vdf_BlockNumber(r) ==
  /\ VdfStep(r, "blockNumber")
  /\ \E ok \in BOOLEAN :
       IF ok /\ age[r.gameNumber] >= BUFFER_BLOCKS
       THEN VdfGoes(r, [r EXCEPT !.at = "setRandao"])
       ELSE VdfDone(r, r)
  /\ UNCHANGED <<ledgerVars, configVars, exitCode, botVars, histVars,
                 notifyCount>>

\* await setRandao(walletClient, publicClient, contractAddress, gameNumber):
\* await publicClient.simulateContract(...)
Vdf_SetRandao(r) ==
  /\ VdfStep(r, "setRandao")
  /\ \/ /\ SimulationPasses("setRandom", r.gameNumber)
        /\ VdfGoes(r, [r EXCEPT !.at = "setRandaoWrite"])
     \/ \E o \in SimulationFailures("setRandom", r.gameNumber) :
          VdfDone(r, VdfCall(r, "setRandom", o))
  /\ UNCHANGED <<ledgerVars, configVars, exitCode, botVars, histVars,
                 notifyCount>>

\* await walletClient.writeContract(request) of setRandao
Vdf_SetRandaoWrite(r) ==
  /\ VdfStep(r, "setRandaoWrite")
  /\ \E o \in Responses("setRandom", r.gameNumber, 0, TRUE) :
       /\ Effect("setRandom", r.gameNumber, o.applied)
       /\ VdfDone(r, VdfCall(r, "setRandom", o))
  /\ UNCHANGED <<configVars, exitCode, botVars, histVars, notifyCount>>

\* await execAsync(`python3 prover.py ${gameInfo.randaoValue}`)
Vdf_Prove(r) ==
  /\ VdfStep(r, "prove")
  /\ \E ok \in BOOLEAN :
       IF ok THEN VdfGoes(r, [r EXCEPT !.at = "readProof"])
       ELSE VdfDone(r, r)
  /\ UNCHANGED <<ledgerVars, configVars, exitCode, botVars, histVars,
                 notifyCount>>

\* JSON.parse(await fs.readFile("./proof.json", "utf8"));
\* prepareProofData(proofData)
Vdf_ReadProof(r) ==
  /\ VdfStep(r, "readProof")
  /\ \E ok \in BOOLEAN :
       IF ok THEN VdfGoes(r, [r EXCEPT !.at = "submit"]) ELSE VdfDone(r, r)
  /\ UNCHANGED <<ledgerVars, configVars, exitCode, botVars, histVars,
                 notifyCount>>

\* try { await submitVDFProof(...) } catch (error) { console.error(...) }:
\* await publicClient.simulateContract(...)
Vdf_Submit(r) ==
  /\ VdfStep(r, "submit")
  /\ \/ /\ SimulationPasses("submitProof", r.gameNumber)
        /\ VdfGoes(r, [r EXCEPT !.at = "submitWrite"])
     \/ \E o \in SimulationFailures("submitProof", r.gameNumber) :
          VdfGoes(r, [VdfCall(r, "submitProof", o) EXCEPT !.at = "wait"])
  /\ UNCHANGED <<ledgerVars, configVars, exitCode, botVars, histVars,
                 notifyCount>>

\* await walletClient.writeContract(request) of submitVDFProof; its
\* rejection is caught and logged by checkAndProcessGame
Vdf_SubmitWrite(r) ==
  /\ VdfStep(r, "submitWrite")
  /\ \E o \in Responses("submitProof", r.gameNumber, 0, TRUE) :
       /\ Effect("submitProof", r.gameNumber, o.applied)
       /\ VdfGoes(r, [VdfCall(r, "submitProof", o) EXCEPT !.at =
            IF o.ok THEN "submitReceipt" ELSE "wait"])
  /\ UNCHANGED <<configVars, exitCode, botVars, histVars, notifyCount>>

\* await publicClient.waitForTransactionReceipt({ hash }) of
\* submitVDFProof; its failure is caught and logged by checkAndProcessGame
Vdf_SubmitReceipt(r) ==
  /\ VdfStep(r, "submitReceipt")
  /\ VdfGoes(r, [r EXCEPT !.at = "wait"])
  /\ UNCHANGED <<ledgerVars, configVars, exitCode, botVars, histVars,
                 notifyCount>>

\* await setTimeout(5000) after the try and catch of submitVDFProof
Vdf_Wait(r) ==
  /\ VdfStep(r, "wait")
  /\ VdfGoes(r, [r EXCEPT !.at = "calc"])
  /\ UNCHANGED <<ledgerVars, configVars, exitCode, botVars, histVars,
                 notifyCount>>

\* await calculatePayouts(...): await publicClient.simulateContract(...)
Vdf_Calc(r) ==
  /\ VdfStep(r, "calc")
  /\ \/ /\ SimulationPasses("calculatePayouts", r.gameNumber)
        /\ VdfGoes(r, [r EXCEPT !.at = "calcWrite"])
        /\ UNCHANGED exitCode
     \/ \E o \in SimulationFailures("calculatePayouts", r.gameNumber) :
          IF IsAlreadyCalculatedVdf(RawError(o))
          THEN VdfExits(r, VdfCall(r, "calculatePayouts", o))
          ELSE /\ VdfDone(r, VdfCall(r, "calculatePayouts", o))
               /\ UNCHANGED exitCode
  /\ UNCHANGED <<ledgerVars, configVars, botVars, histVars, notifyCount>>

\* await walletClient.writeContract(request) of calculatePayouts;
\* process.exit(0)
Vdf_CalcWrite(r) ==
  /\ VdfStep(r, "calcWrite")
  /\ \E o \in Responses("calculatePayouts", r.gameNumber, 0, TRUE) :
       /\ Effect("calculatePayouts", r.gameNumber, o.applied)
       /\ IF o.ok \/ IsAlreadyCalculatedVdf(RawError(o))
          THEN VdfExits(r, VdfCall(r, "calculatePayouts", o))
          ELSE /\ VdfDone(r, VdfCall(r, "calculatePayouts", o))
               /\ UNCHANGED exitCode
  /\ UNCHANGED <<configVars, botVars, histVars, notifyCount>>

----
(* The specifications *)

Modes == WitnetModes \cup VdfModes

InitLedger ==
  /\ cur = 1
  /\ phase = [g \in Games |-> InPlay]
  /\ seed = [g \in Games |-> 0]
  /\ avail = [g \in Games |-> FALSE]
  /\ age = [g \in Games |-> 0]
  /\ proof = [g \in Games |-> FALSE]
  /\ tleft = TopTime

InitBot ==
  /\ exitCode = -1
  /\ pc = "start"
  /\ activeDrawingGame = Null
  /\ notifiedGames = {}
  /\ currentInfo = NoCurrent
  /\ gameNum = Null
  /\ info = NoInfo
  /\ i = 0
  /\ err = NoErr
  /\ delay = 0
  /\ vrun = EmptyBag
  /\ vlast = NoCall
  /\ startActive = Null
  /\ startNotified = {}
  /\ obsTime = -1
  /\ sawCompleted = {}
  /\ reads = {}
  /\ readFailed = FALSE
  /\ writes = << >>
  /\ notifyCount = [g \in Games |-> 0]

Init ==
  /\ InitLedger
  /\ InitBot
  /\ mode \in Modes
  /\ forceGame \in IF mode \in {"single", "flow", "vdfGame"} THEN Games
                   ELSE {Null}
  /\ lambdaConfigured \in IF mode \in {"autonomous", "single"} THEN BOOLEAN
                          ELSE {FALSE}

Environment == Tick \/ OracleReady \/ MineBlock \/ OtherCaller

Autonomous ==
  \/ Auto_ReadCurrent \/ Auto_ReadActive \/ Auto_NotifyActive
  \/ Auto_PostActive \/ Auto_ReadInfo \/ Auto_Initiate
  \/ Auto_SetRandom \/ Auto_SetRandomWrite \/ Auto_Calc \/ Auto_CalcWrite
  \/ Auto_Notify \/ Auto_Post \/ Auto_ReadNext \/ Auto_Sleep

SingleShot ==
  \/ Single_Read \/ Single_Initiate \/ Single_SetRandom
  \/ Single_SetRandomWrite \/ Single_Calc \/ Single_CalcWrite
  \/ Single_Notify \/ Single_Post \/ Single_Sleep

Flow ==
  \/ Flow_Read \/ Flow_Initiate \/ Flow_SetRandom \/ Flow_SetRandomWrite
  \/ Flow_Calc \/ Flow_CalcWrite \/ Flow_Sleep

Vdf ==
  \/ Vdf_Fire
  \/ \E r \in VdfRunning :
       \/ Vdf_ReadNumber(r) \/ Vdf_ReadInfo(r)
       \/ Vdf_Initiate(r) \/ Vdf_InitiateWrite(r) \/ Vdf_BlockNumber(r)
       \/ Vdf_SetRandao(r) \/ Vdf_SetRandaoWrite(r) \/ Vdf_Prove(r)
       \/ Vdf_ReadProof(r) \/ Vdf_Submit(r) \/ Vdf_SubmitWrite(r)
       \/ Vdf_SubmitReceipt(r) \/ Vdf_Wait(r)
       \/ Vdf_Calc(r) \/ Vdf_CalcWrite(r)

Next == Environment \/ Autonomous \/ SingleShot \/ Flow \/ Vdf

Spec == Init /\ [][Next]_vars

(* calculateInterval on its own: the arguments are drawn at the start *)

IntervalTimes ==
  {0, 1, 1799, 1800, 1801, 3600, 7199, 7200, 7201, 43199, 43200, 43201, 46800}

InitInterval ==
  /\ InitLedger
  /\ exitCode = -1
  /\ mode = "interval"
  /\ forceGame = Null
  /\ lambdaConfigured = FALSE
  /\ pc = "call"
  /\ activeDrawingGame = Null
  /\ notifiedGames = {}
  /\ currentInfo \in [gameNumber : {1}, timeUntilDraw : IntervalTimes]
  /\ gameNum = 1
  /\ info \in [status : {InPlay, Drawing, Completed}, randomValue : {0, 1}]
  /\ i = 0
  /\ err = NoErr
  /\ delay = 0
  /\ vrun = EmptyBag
  /\ vlast = NoCall
  /\ startActive = Null
  /\ startNotified = {}
  /\ obsTime = -1
  /\ sawCompleted = {}
  /\ reads = {}
  /\ readFailed = FALSE
  /\ writes = << >>
  /\ notifyCount = [g \in Games |-> 0]

\* return calculateInterval(status, currentInfo.timeUntilDraw, info.randomValue)
CallInterval ==
  /\ mode = "interval"
  /\ pc = "call"
  /\ delay' = calculateInterval(info.status, currentInfo.timeUntilDraw,
                                info.randomValue)
  /\ pc' = "returned"
  /\ UNCHANGED <<activeDrawingGame, notifiedGames, currentInfo, gameNum,
                 info, i, err>>
  /\ UNCHANGED <<ledgerVars, configVars, exitCode, vdfVars, histVars,
                 notifyCount>>

SpecInterval == InitInterval /\ [][CallInterval]_vars

----------------------------------------------------------------------------
(* Properties *)

\* the calls of checkAndProcessGame of the VDF bot: under way, and the one
\* that has just returned
VdfCalls == VdfRunning \cup {vlast}

\* the last contract call of this cycle
LastCall == writes[Len(writes)]

(* C1: in the autonomous loop, once initiateDraw has succeeded for game N  *)
(* the bot holds N as its active game, and every cycle that starts with    *)
(* active game N and does not read N as Completed reads only the detailed  *)
(* state of N, dispatches on N, sends its contract calls for N and ends    *)
(* with N still active, whatever the current game number is.               *)
C1_ActiveGameDispatched ==
  mode = "autonomous" =>
    /\ \A k \in 1..Len(writes) :
         (writes[k].act = "initiateDraw" /\ writes[k].reason = "none")
           => activeDrawingGame = writes[k].game
    /\ (startActive # Null /\ startActive \notin sawCompleted) =>
         /\ activeDrawingGame = startActive
         /\ reads \subseteq {startActive}
         /\ info # NoInfo => gameNum = startActive
         /\ \A k \in 1..Len(writes) : writes[k].game = startActive

\* C1, its case: the cycle works on game 1 while the current game is 2
C1_Witness ==
  /\ mode = "autonomous"
  /\ startActive = 1
  /\ currentInfo.gameNumber = 2
  /\ info.status = Drawing
  /\ gameNum = 1
  /\ Len(writes) = 1
  /\ pc = "sleep"

\* C2 as stated: the notification endpoint is called at most once for a game
\* in one process lifetime, whether the call succeeds or fails
C2_NotifiedAtMostOnce ==
  \A g \in Games : notifyCount[g] <= 1

\* C3 as stated: in every mode, a cycle that reads its game as Pending with
\* the draw time still ahead sends no initiateDraw
C3_NoDrawBeforeDeadline ==
  (info.status = InPlay /\ obsTime > 0) => writes = << >>

(* C3 amended: in the autonomous loop a cycle that reads the current game  *)
(* as Pending with timeUntilDraw > 0 sends no contract call and returns to *)
(* sleep without an error.  The one-shot run, the earlier Witnet bot and   *)
(* the VDF bot do not read the time: a cycle of theirs that reads its game *)
(* as Pending goes on to initiateDraw.                                     *)
C3_AutonomousAwaitsDeadline ==
  /\ (mode = "autonomous" /\ info.status = InPlay
        /\ currentInfo.timeUntilDraw > 0) =>
       /\ writes = << >>
       /\ pc = "sleep"
       /\ err = NoErr
  /\ (mode \in {"single", "flow"} /\ info.status = InPlay) =>
       \/ pc = "initiate"
       \/ writes # << >> /\ writes[1].act = "initiateDraw"
  /\ \A r \in VdfCalls :
       r.gameInfo.status = InPlay =>
         \/ r.at \in {"initiate", "initiateWrite"}
         \/ r.calls # << >> /\ r.calls[1].act = "initiateDraw"

\* C3, its case: the autonomous loop read a Pending game before its draw time
C3_Witness ==
  /\ mode = "autonomous"
  /\ info.status = InPlay
  /\ currentInfo.timeUntilDraw > 0
  /\ reads = {1}
  /\ pc = "sleep"

(* C4: in initiateDraw of the Witnet bots, a candidate rejected for a      *)
(* reason that is no funding shortfall is the last one tried, and the      *)
(* error of that rejection is what the caller gets, as it was thrown.      *)
C4_FatalRejectionStopsFunding ==
  mode \in WitnetModes =>
    \A k \in 1..Len(writes) :
      (writes[k].act = "initiateDraw"
         /\ writes[k].reason \notin FundingReasons \cup {"none"}) =>
        /\ k = Len(writes)
        /\ pc # "initiate"
        /\ err = [cause |-> IF writes[k].cause THEN writes[k].reason
                            ELSE "none",
                  text |-> writes[k].reason, wrap |-> "none"]

\* C4, its case: the first candidate was rejected with "Time interval not
\* passed" and nothing else was tried
C4_Witness ==
  /\ Len(writes) = 1
  /\ writes[1].act = "initiateDraw"
  /\ writes[1].reason = "TimeInterval"
  /\ err.text = "TimeInterval"

(* C5: in initiateDraw of bot.js the candidates are tried one at a time in *)
(* the order of WITNET_FUNDING_ATTEMPTS; a candidate is tried only after   *)
(* every one before it was rejected for a funding shortfall, and a         *)
(* shortfall of a candidate that is not the last leads to the next one;    *)
(* nothing is tried after a success, which is the result of the call.      *)
C5_FundingInOrder ==
  (mode \in {"autonomous", "single"}
     /\ \E k \in 1..Len(writes) : writes[k].act = "initiateDraw") =>
    /\ Len(writes) <= Len(WITNET_FUNDING_ATTEMPTS)
    /\ \A k \in 1..Len(writes) :
         /\ writes[k].act = "initiateDraw"
         /\ writes[k].value = WITNET_FUNDING_ATTEMPTS[k]
         /\ k < Len(writes) => writes[k].reason \in FundingReasons
    /\ pc = "initiate" => i = Len(writes)
    /\ (LastCall.reason \in FundingReasons
          /\ Len(writes) < Len(WITNET_FUNDING_ATTEMPTS)) => pc = "initiate"
    /\ LastCall.reason = "none" => pc = "sleep" /\ err = NoErr

\* C5, its case: a and b were rejected for a funding shortfall, c went through
C5_Witness ==
  /\ mode = "autonomous"
  /\ Len(writes) = 3
  /\ writes[1].reason = "Insufficient"
  /\ writes[2].reason = "Insufficient"
  /\ writes[3].reason = "none"
  /\ writes[3].value = WITNET_FUNDING_ATTEMPTS[3]
  /\ activeDrawingGame = gameNum

\* a calculatePayouts that was rejected with "Payouts already calculated"
AlreadyCalculatedCall(w) ==
  w.act = "calculatePayouts" /\ w.reason = "AlreadyCalc"

\* C6 as stated: after a calculatePayouts rejected with "Payouts already
\* calculated" no error is raised and the bot keeps running its cycle
C6_AlreadyCalculatedKeepsRunning ==
  /\ \A k \in 1..Len(writes) :
       AlreadyCalculatedCall(writes[k]) => err = NoErr /\ Running
  /\ \A r \in VdfCalls : \A k \in 1..Len(r.calls) :
       AlreadyCalculatedCall(r.calls[k]) => Running

(* C6 amended: a calculatePayouts rejected with "Payouts already           *)
(* calculated" raises no error.  In the Witnet bots the call returns and   *)
(* the cycle ends as after a success: the autonomous loop returns the      *)
(* interval of a draw in progress, the one-shot run waits ten seconds.  In *)
(* the VDF bot the process exits with code 0, as it does when the call     *)
(* goes through.                                                           *)
C6_AlreadyCalculatedIsNoError ==
  /\ \A k \in 1..Len(writes) :
       AlreadyCalculatedCall(writes[k]) =>
         /\ err = NoErr
         /\ Running
         /\ pc = "sleep"
         /\ mode = "autonomous" => delay = 1
         /\ mode = "single" => delay = 10
  /\ \A r \in VdfCalls : \A k \in 1..Len(r.calls) :
       /\ AlreadyCalculatedCall(r.calls[k]) => exitCode = 0
       /\ (r.calls[k].act = "calculatePayouts" /\ r.calls[k].reason = "none")
            => exitCode = 0

\* C6, its case: the autonomous loop was told that the payouts are calculated
C6_Witness ==
  /\ mode = "autonomous"
  /\ Len(writes) = 1
  /\ AlreadyCalculatedCall(writes[1])
  /\ phase[writes[1].game] = Completed
  /\ pc = "sleep"

\* C7 as stated: the VDF bot sends calculatePayouts for a game only when a
\* VDF proof of that game has been accepted
C7_PayoutsOnlyAfterProof ==
  \A r \in VdfCalls : \A k \in 1..Len(r.calls) :
    r.calls[k].act = "calculatePayouts" => proof[r.calls[k].game]

(* C8: setRandomAndWinningNumbers (setRandom in the VDF bot) is sent only  *)
(* in a cycle that read its game as Drawing with the random value unset;   *)
(* a cycle that read Drawing with the random value set goes on to          *)
(* calculatePayouts (to the proof, then calculatePayouts, in the VDF bot)  *)
(* and sends nothing else.                                                 *)
C8_SetRandomOnlyWhenUnset ==
  /\ \A k \in 1..Len(writes) :
       writes[k].act = "setRandom" =>
         /\ info.status = Drawing /\ info.randomValue = 0
         /\ writes[k].game = gameNum
  /\ (mode \in WitnetModes /\ info.status = Drawing
        /\ info.randomValue # 0) =>
       \/ pc \in {"calc", "calcWrite"} /\ writes = << >>
       \/ Len(writes) = 1 /\ writes[1].act = "calculatePayouts"
  /\ \A r \in VdfCalls :
       /\ \A k \in 1..Len(r.calls) :
            r.calls[k].act = "setRandom" =>
              r.gameInfo.status = Drawing /\ r.gameInfo.randomValue = 0
       /\ (r.gameInfo.status = Drawing /\ r.gameInfo.randomValue # 0) =>
            \A k \in 1..Len(r.calls) :
              r.calls[k].act \in {"submitProof", "calculatePayouts"}

\* C8, its case: the cycle read Drawing with the random value set, and sent
\* calculatePayouts
C8_Witness ==
  /\ mode = "autonomous"
  /\ info.status = Drawing
  /\ info.randomValue # 0
  /\ Len(writes) = 1
  /\ writes[1].act = "calculatePayouts"
  /\ writes[1].reason = "none"

(* C9: calculateInterval gives the documented table: in play, 60 minutes   *)
(* above 12 h, 30 above 2 h up to 12 h, 10 above 30 min up to 2 h, 2 up to *)
(* 30 min; drawing, 5 with the random value unset and 1 with it set.       *)
C9_IntervalTable ==
  (mode = "interval" /\ pc = "returned") =>
    LET t == currentInfo.timeUntilDraw IN
    /\ (info.status = InPlay /\ t > 43200) => delay = 60
    /\ (info.status = InPlay /\ t > 7200 /\ t <= 43200) => delay = 30
    /\ (info.status = InPlay /\ t > 1800 /\ t <= 7200) => delay = 10
    /\ (info.status = InPlay /\ t <= 1800) => delay = 2
    /\ (info.status = Drawing /\ info.randomValue = 0) => delay = 5
    /\ (info.status = Drawing /\ info.randomValue # 0) => delay = 1

\* C9, its case: exactly 12 h before the draw the interval is 30 minutes
C9_Witness ==
  /\ mode = "interval"
  /\ pc = "returned"
  /\ info.status = InPlay
  /\ currentInfo.timeUntilDraw = 43200
  /\ delay = 30

\* the cycle met a failure the bot has no pattern for
UnclassifiedFailure ==
  \/ readFailed
  \/ /\ writes # << >>
     /\ LastCall.reason # "none"
     /\ CASE LastCall.act = "initiateDraw" ->
               \/ LastCall.reason \notin FundingReasons
               \/ Len(writes) = Len(WITNET_FUNDING_ATTEMPTS)
          [] LastCall.act = "setRandom" -> LastCall.reason # "NotYetAvail"
          [] LastCall.act = "calculatePayouts" ->
               LastCall.reason # "AlreadyCalc"

(* C10: in the autonomous loop a cycle that meets a failed read, a         *)
(* rejection it has no pattern for or the exhaustion of the funding        *)
(* candidates returns the longest interval, 60 minutes; the process does   *)
(* not exit, and the next cycle can start after the sleep.                 *)
C10_FailureBacksOff ==
  mode = "autonomous" =>
    /\ Running
    /\ UnclassifiedFailure =>
         /\ pc = "sleep"
         /\ delay = 60
         /\ err # NoErr
         /\ ENABLED Auto_Sleep

\* C10, its case: every funding candidate was rejected for a shortfall
C10_Witness ==
  /\ mode = "autonomous"
  /\ Len(writes) = Len(WITNET_FUNDING_ATTEMPTS)
  /\ LastCall.reason \in FundingReasons
  /\ err = ExhaustedError
  /\ delay = 60

\* a contract call the bot of bot.js has no pattern for: a rejection that is
\* neither a success nor a known wait, or the last funding candidate rejected
FatalCall(w, k) ==
  /\ w.reason # "none"
  /\ CASE w.act = "initiateDraw" ->
            \/ w.reason \notin FundingReasons
            \/ k = Len(WITNET_FUNDING_ATTEMPTS)
       [] w.act = "setRandom" -> w.reason # "NotYetAvail"
       [] w.act = "calculatePayouts" -> w.reason # "AlreadyCalc"
       [] OTHER -> TRUE

\* C11 as stated: in the one-shot run and in the earlier one-game bot, a
\* fatal rejection ends the process with a non-zero exit code
C11_FatalExitsNonZero ==
  mode \in {"single", "flow"} =>
    \A k \in 1..Len(writes) :
      FatalCall(writes[k], k) => exitCode \notin {-1, 0}

(* C11 amended: in the one-shot run of bot.js a fatal rejection or the     *)
(* exhaustion of the funding candidates ends the process with exit code 1, *)
(* and the rejected call is the last one sent.  The earlier one-game bot   *)
(* logs the error, keeps running and sleeps until its next check.          *)
C11_SingleShotFatalExits ==
  /\ mode = "single" =>
       /\ \A k \in 1..Len(writes) :
            FatalCall(writes[k], k) =>
              /\ k = Len(writes)
              /\ exitCode = 1
              /\ pc = "exited"
              /\ err # NoErr
       /\ exitCode = 1 =>
            \/ readFailed
            \/ writes # << >> /\ FatalCall(LastCall, Len(writes))
  /\ mode = "flow" =>
       /\ exitCode \in {-1, 0}
       /\ \A k \in 1..Len(writes) :
            FatalCall(writes[k], k) =>
              /\ k = Len(writes)
              /\ Running
              /\ pc = "sleep"
              /\ err # NoErr

\* C11, its case: the one-shot run was refused with "Time interval not
\* passed" and has exited with code 1
C11_Witness ==
  /\ mode = "single"
  /\ Len(writes) = 1
  /\ writes[1].act = "initiateDraw"
  /\ writes[1].reason = "TimeInterval"
  /\ exitCode = 1

(* C12: a one-game run exits with code 0 exactly when it has read its game *)
(* as Completed, and it ends with another exit code only after one of the  *)
(* calls it sent was rejected: while every call is accepted and the random *)
(* value arrives, the run goes on until it exits with 0.                   *)
C12_ExitsZeroIffCompleted ==
  mode \in {"single", "flow"} =>
    /\ exitCode = 0 => forceGame \in sawCompleted
    /\ forceGame \in sawCompleted => exitCode = 0 \/ pc = "notify"
    /\ exitCode \notin {-1, 0} =>
         \E k \in 1..Len(writes) : writes[k].reason # "none"

(* C13: at most one cycle runs at any moment: a call of the cycle function *)
(* starts only after the call before it has returned.                      *)
C13_OneCycleAtATime == BagCardinality(vrun) <= 1

\* writeContract was called for the contract call w
Broadcast(w) == w.sim # "failed"

(* C14: every call handed to writeContract was simulated first, in the    *)
(* same attempt, and the simulation passed.                                *)
C14_SimulatedBeforeBroadcast ==
  /\ \A k \in 1..Len(writes) : Broadcast(writes[k]) => writes[k].sim = "passed"
  /\ \A r \in VdfCalls : \A k \in 1..Len(r.calls) :
       Broadcast(r.calls[k]) => r.calls[k].sim = "passed"

(* C15: once the notifier has been called for a game, the game is in      *)
(* notifiedGames whether the call was delivered or failed, and no later    *)
(* cycle calls the notifier for that game again.                           *)
C15_FailedNotifyRecorded ==
  mode = "autonomous" =>
    \A g \in Games :
      notifyCount[g] > 0 => g \in notifiedGames /\ notifyCount[g] = 1

(* C16: a cycle that started with activeDrawingGame = N ends it with       *)
(* another value only by setting it to null, after it has read game N as   *)
(* Completed and the notifier has been called for N, in this cycle or an   *)
(* earlier one; every other cycle, also one that ends in an error, leaves  *)
(* activeDrawingGame = N.                                                  *)
C16_ActiveClearedOnlyAfterCompleted ==
  (mode = "autonomous" /\ startActive # Null) =>
    \/ activeDrawingGame = startActive
    \/ /\ startActive \in sawCompleted
       /\ startActive \in notifiedGames \/ notifyCount[startActive] > 0
       /\ pc # "readActive"
       /\ \/ activeDrawingGame = Null
          \/ pc \in {"setRandom", "setRandomWrite", "calc", "calcWrite",
                     "sleep"}

\* C16, its case: the cycle read active game 1 as Completed, the POST for
\* it failed, and activeDrawingGame is null
C16_Witness ==
  /\ mode = "autonomous"
  /\ startActive = 1
  /\ activeDrawingGame = Null
  /\ 1 \in sawCompleted
  /\ notifyCount[1] = 1
  /\ 1 \notin notifiedGames

(* C17: a process that starts with nothing in memory while game N is being *)
(* drawn and the current game is already N + 1 takes up game N: when its   *)
(* first cycle has made its reads, activeDrawingGame is N.                 *)
C17_RestartTakesUpDraw ==
  \A n \in Games :
    ( /\ mode = "autonomous"
      /\ pc = "sleep"
      /\ startActive = Null
      /\ startNotified = {}
      /\ notifiedGames = {}
      /\ ~readFailed
      /\ currentInfo.gameNumber = n + 1
      /\ phase[n] = Drawing )
    => activeDrawingGame = n

\* the call w is a setRandomAndWinningNumbers refused with "Random number
\* not yet available"
NotYetAvailableCall(w) == w.act = "setRandom" /\ w.reason = "NotYetAvail"

(* C18: a setRandomAndWinningNumbers refused with "Random number not yet   *)
(* available" is a wait and no error.  It ends the cycle; the autonomous   *)
(* loop sleeps WAITING_FOR_RANDOM, not the delay of the catch block, with  *)
(* no error caught and activeDrawingGame on that game; the one-game runs   *)
(* do not exit and sleep until their next check of the game.               *)
C18_NotYetAvailableWaits ==
  \A k \in 1..Len(writes) :
    NotYetAvailableCall(writes[k]) =>
      /\ k = Len(writes)
      /\ Running
      /\ pc = "sleep"
      /\ mode = "autonomous" =>
           /\ delay = WAITING_FOR_RANDOM
           /\ delay # CatchDelay
           /\ err = NoErr
           /\ activeDrawingGame = writes[k].game
      /\ mode = "single" => delay = 30 /\ err = NoErr

\* C18, its case: the autonomous loop was refused the random number of
\* game 1 and sleeps
C18_Witness ==
  /\ mode = "autonomous"
  /\ writes # << >>
  /\ NotYetAvailableCall(LastCall)
  /\ LastCall.game = 1
  /\ activeDrawingGame = 1
  /\ pc = "sleep"

(* C19: a cycle of the autonomous loop in which a read of the contract     *)
(* failed has activeDrawingGame and notifiedGames as they were when the    *)
(* cycle started, and makes no read after the failed one.                  *)
C19_FailedReadCycleUnchanged ==
  (mode = "autonomous" /\ readFailed) =>
    /\ pc = "sleep"
    /\ activeDrawingGame = startActive
    /\ notifiedGames = startNotified

\* a step in which a read of the contract fails
ReadFails == ~readFailed /\ readFailed'

(* C19 amended: the failure of a read changes neither activeDrawingGame    *)
(* nor notifiedGames: they keep what the cycle had made of them before the *)
(* read (a cycle that read its active game as Completed has by then set    *)
(* activeDrawingGame to null, and a delivered notification is recorded).   *)
(* The failed read ends the cycle with the delay of the catch block, and   *)
(* no read or call follows before the next cycle.                          *)
C19_FailedReadEndsCycle ==
  [][ mode = "autonomous" =>
        /\ ReadFails =>
             /\ activeDrawingGame' = activeDrawingGame
             /\ notifiedGames' = notifiedGames
             /\ pc' = "sleep"
             /\ delay' = CatchDelay
             /\ reads' = reads
             /\ writes' = writes
        /\ readFailed =>
             /\ pc = "sleep"
             /\ activeDrawingGame' = activeDrawingGame
             /\ notifiedGames' = notifiedGames
             /\ notifyCount' = notifyCount
             /\ pc' \in {"sleep", "start"}
             /\ pc' = "sleep" => reads' = reads /\ writes' = writes
             /\ activeDrawingGame = startActive \/
                  (activeDrawingGame = Null /\ startActive \in sawCompleted)
             /\ notifiedGames \ startNotified \subseteq sawCompleted ]_vars

\* C19, its case: the cycle read active game 1 as Completed, recorded the
\* delivered notification, set activeDrawingGame to null, and then a read
\* failed
C19_Witness ==
  /\ mode = "autonomous"
  /\ readFailed
  /\ pc = "sleep"
  /\ startActive = 1
  /\ activeDrawingGame = Null
  /\ startNotified = {}
  /\ notifiedGames = {1}

(* C20: in the one-shot run of bot.js a failed read of the game is         *)
(* transient: the process keeps running and waits for its next turn, in    *)
(* which it reads the game again.                                          *)
C20_SingleShotReadRetried ==
  (mode = "single" /\ readFailed) => Running /\ pc = "sleep"

\* every call of the cycle so far is an initiateDraw refused for funding
AllRefusedForFunding ==
  /\ writes # << >>
  /\ \A k \in 1..Len(writes) :
       writes[k].act = "initiateDraw" /\ writes[k].reason \in FundingReasons

(* C21: an initiateDraw whose attempts were all refused for funding ends   *)
(* only after every candidate of WITNET_FUNDING_ATTEMPTS was sent once, in *)
(* the order of the list, and it ends with the error "All attempts to fund *)
(* Witnet randomness have failed".                                         *)
C21_ExhaustionAfterEveryCandidate ==
  (mode \in WitnetModes /\ AllRefusedForFunding /\ pc \in {"sleep", "exited"})
  => /\ Len(writes) = Len(WITNET_FUNDING_ATTEMPTS)
     /\ \A k \in 1..Len(writes) : writes[k].value = WITNET_FUNDING_ATTEMPTS[k]
     /\ err = ExhaustedError

(* C22: the amounts initiateDraw sends are ascending: each attempt carries *)
(* a larger amount than the attempt before it.                             *)
C22_FundingAscending ==
  \A k \in 2..Len(writes) :
    (writes[k].act = "initiateDraw" /\ writes[k - 1].act = "initiateDraw")
    => writes[k].value > writes[k - 1].value

(* C23: notifiedGames only grows while the process runs, and an id enters  *)
(* it only in the step that calls notifyRoundComplete for that id, in a    *)
(* cycle that has read the game as Completed.                              *)
C23_NotifiedOnlyGrows ==
  [][ /\ notifiedGames \subseteq notifiedGames'
      /\ \A g \in notifiedGames' \ notifiedGames :
           /\ g \in sawCompleted
           /\ phase[g] = Completed
           /\ \/ pc \in {"notifyActive", "postActive"}
                 /\ g = activeDrawingGame
              \/ pc \in {"notify", "post"} /\ g = gameNum
           /\ lambdaConfigured => notifyCount'[g] >= 1
      /\ \A g \in notifiedGames :
           /\ phase[g] = Completed
           /\ lambdaConfigured => notifyCount[g] >= 1 ]_vars

\* C23, its case: game 1 was read as Completed, a POST was made for it and
\* it is in notifiedGames
C23_Witness ==
  /\ mode = "autonomous"
  /\ lambdaConfigured
  /\ notifiedGames = {1}
  /\ notifyCount[1] >= 1
  /\ phase[1] = Completed

(* C24: a draw whose transaction was lost is started again.  A cycle that  *)
(* began with activeDrawingGame = N and read game N as still InPlay sends  *)
(* initiateDraw again before it ends.                                      *)
C24_LostDrawResubmitted ==
  ( /\ mode = "autonomous"
    /\ pc = "sleep"
    /\ ~readFailed
    /\ startActive # Null
    /\ startActive \in reads
    /\ gameNum = startActive
    /\ info.status = InPlay )
  => \E k \in 1..Len(writes) : writes[k].act = "initiateDraw"

\* the intervals checkAndProcessGame can return
INTERVALS ==
  {FAR_FROM_DRAW, APPROACHING_DRAW, CLOSE_TO_DRAW, VERY_CLOSE,
   DRAWING_IN_PROGRESS, WAITING_FOR_RANDOM}

\* the cycle found the current game InPlay at its draw time, with no active
\* game left to finish
DrawDue ==
  /\ mode = "autonomous"
  /\ activeDrawingGame = Null \/ pc = "sleep"
  /\ startActive = Null \/ startActive \in sawCompleted
  /\ gameNum # Null
  /\ gameNum = currentInfo.gameNumber
  /\ gameNum \in reads
  /\ info.status = InPlay
  /\ currentInfo.timeUntilDraw <= 0

(* C25: with no active game, a cycle of the autonomous loop that reads the *)
(* current game as InPlay with its draw time reached calls initiateDraw in *)
(* that cycle.  When the call returns a hash, activeDrawingGame is that    *)
(* game and the cycle returns the shortest interval; when it fails,        *)
(* activeDrawingGame stays null.                                           *)
C25_DueDrawInitiated ==
  /\ (mode = "autonomous" /\ pc = "initiate") =>
       DrawDue /\ activeDrawingGame = Null
  /\ (DrawDue /\ pc \in {"initiate", "sleep"}) =>
       /\ pc = "sleep" => writes # << >>
       /\ \A k \in 1..Len(writes) :
            /\ writes[k].act = "initiateDraw"
            /\ writes[k].game = gameNum
       /\ (pc = "sleep" /\ LastCall.reason = "none") =>
            /\ activeDrawingGame = gameNum
            /\ delay = DRAWING_IN_PROGRESS
            /\ \A d \in INTERVALS : delay <= d
       /\ (pc = "sleep" /\ LastCall.reason # "none") =>
            /\ activeDrawingGame = Null
            /\ err # NoErr

\* C25, its case: the draw of game 1 was due, initiateDraw returned a hash
\* and the cycle has ended
C25_Witness ==
  /\ DrawDue
  /\ pc = "sleep"
  /\ gameNum = 1
  /\ Len(writes) = 1
  /\ LastCall.reason = "none"
  /\ activeDrawingGame = 1

(* C26: a cycle of the autonomous loop that started with activeDrawingGame *)
(* = N and has not read game N as Completed never calls initiateDraw: no   *)
(* draw is started while game N is still being finished.                   *)
C26_NoDrawWhileFinishing ==
  (mode = "autonomous" /\ startActive # Null /\ startActive \notin sawCompleted)
  => /\ pc # "initiate"
     /\ \A k \in 1..Len(writes) : writes[k].act # "initiateDraw"

\* C26, its case: the cycle started with active game 1, read it as Drawing
\* with its random number set while the current game is 2, and calculated
\* the payouts of game 1
C26_Witness ==
  /\ mode = "autonomous"
  /\ startActive = 1
  /\ 1 \in reads
  /\ 1 \notin sawCompleted
  /\ currentInfo.gameNumber = 2
  /\ info.status = Drawing
  /\ pc = "sleep"
  /\ writes # << >>
  /\ LastCall.act = "calculatePayouts"
  /\ LastCall.game = 1

(* C27: activeDrawingGame never goes from one game straight to another:    *)
(* every change of it is from null to a game or from a game to null.       *)
C27_ActiveNeverReplaced ==
  [][ activeDrawingGame' # activeDrawingGame =>
        activeDrawingGame = Null \/ activeDrawingGame' = Null ]_vars

\* C27, its case: the cycle started with active game 1, found it
\* Completed, announced it and set activeDrawingGame to null; game 2 was
\* due, the same cycle initiated its draw and holds it as the active game
C27_Witness ==
  /\ mode = "autonomous"
  /\ startActive = 1
  /\ 1 \in notifiedGames
  /\ activeDrawingGame = 2
  /\ phase[2] = Drawing
  /\ writes # << >>
  /\ LastCall.act = "initiateDraw" /\ LastCall.game = 2
  /\ LastCall.reason = "none"

(* The bots together with calculateInterval called on its own *)
SpecDelay == (Init \/ InitInterval) /\ [][Next \/ CallInterval]_vars

\* how far a game is: the place of its phase, time to the deadline and seed
\* in the order far, approaching, close, waiting for the seed, very close,
\* seed received
DelayStage(status, timeUntilDraw, randomValue) ==
  IF status = InPlay
  THEN IF timeUntilDraw > 43200 THEN 1
       ELSE IF timeUntilDraw > 7200 THEN 2
       ELSE IF timeUntilDraw > 1800 THEN 3
       ELSE 5
  ELSE IF randomValue = 0 THEN 4 ELSE 6

(* C29: the delay never grows as the deadline approaches or the draw goes  *)
(* on: the delay calculateInterval returned is at least the delay it gives *)
(* for every game that is as far or further; and no cycle of the           *)
(* autonomous loop returns more than the delay of a game more than 12 h    *)
(* from its deadline.                                                      *)
C29_DelayNeverGrows ==
  /\ (mode = "interval" /\ pc = "returned" /\ info.status \in {InPlay, Drawing})
     => \A st \in {InPlay, Drawing}, t \in IntervalTimes, rv \in {0, 1} :
          DelayStage(st, t, rv) >=
            DelayStage(info.status, currentInfo.timeUntilDraw, info.randomValue)
          => calculateInterval(st, t, rv) <= delay
  /\ (mode = "autonomous" /\ pc = "sleep")
     => delay <= calculateInterval(InPlay, 43201, 0)

\* C29, its case: calculateInterval returned the delay of a draw that waits
\* for its seed, between those of a close and of a very close deadline
C29_Witness ==
  /\ mode = "interval"
  /\ pc = "returned"
  /\ info.status = Drawing
  /\ info.randomValue = 0
  /\ delay = WAITING_FOR_RANDOM

\* game g is being drawn, the autonomous loop does not hold it as its active
\* game and the contract has moved on to a later game
Stranded(g) ==
  /\ mode = "autonomous"
  /\ phase[g] = Drawing
  /\ cur # g
  /\ activeDrawingGame # g
  /\ pc \in {"sleep", "start"} \/ gameNum # g

\* no step of the loop takes up a stranded game: only another caller of the
\* contract ends that state
StrandedStays ==
  [][ \A g \in Games : Stranded(g) => (Stranded(g)' \/ OtherCaller) ]_vars

(* C28: liveness, in the form a finite run refutes. A game whose deadline  *)
(* has passed is completed by the loop only if the loop works on it: when  *)
(* a cycle has ended with no read failed, every game that is being drawn   *)
(* is the active game of the loop or the current game of the contract.     *)
C28_DrawnGameIsWorkedOn ==
  (mode = "autonomous" /\ pc = "sleep" /\ ~readFailed) =>
    \A g \in Games :
      phase[g] = Drawing => (activeDrawingGame = g \/ cur = g)

====
